---------------------------- MODULE Spec2Model ----------------------------
(***************************************************************************)
(* A model of the ferrite chess engine: bitboard position, Zobrist         *)
(* hashing, legal move generation, transposition table, iterative          *)
(* deepening negamax and the UCI command loop.                             *)
(*                                                                         *)
(* Representation.  A BitBoard (u64) is the set of its set bits, a subset  *)
(* of 0..63; so is every other 64-bit word (hashes, Zobrist keys).  With   *)
(* that, & is \cap, | is \cup, ^ is the symmetric difference and a shift   *)
(* moves the elements.  A Square is its index 0..63, a Piece its index     *)
(* 0..5, a Color its index 0..1.  A ChessMove is its packed u16.           *)
(* Option::None of a square, piece or move is -1.                          *)
(***************************************************************************)
EXTENDS Integers, Sequences, FiniteSets, TLC

\* ------------------------------------------------------------------------
\* board/bitboard.rs, board/square.rs, board/piece.rs
\* ------------------------------------------------------------------------

Squares == 0 .. 63
EMPTY == {}
NoSquare == -1
NoPiece == -1
NoMove == -1

Pawn == 0
Knight == 1
Bishop == 2
Rook == 3
Queen == 4
King == 5

White == 0
Black == 1

\* impl Not for Color
NotColor(c) == IF c = White THEN Black ELSE White

\* u64 ^ u64
Xor(a, b) == {i \in 0 .. 63 : (i \in a) # (i \in b)}

\* (u64 << k), truncated to 64 bits, and (u64 >> k)
Shl(x, k) == {i + k : i \in {j \in x : j + k <= 63}}
Shr(x, k) == {i - k : i \in {j \in x : j >= k}}


\* u64::trailing_zeros of a non-zero word
trailing_zeros(bb) == CHOOSE x \in bb : \A y \in bb : x <= y

\* BitBoardIter: the squares of a bitboard, lowest bit first
BitBoardIter(bb) ==
    [k \in 1 .. Cardinality(bb) |->
        CHOOSE x \in bb : Cardinality({y \in bb : y < x}) = k - 1]

rank(sq) == sq \div 8
file(sq) == sq % 8
make_square(r, f) == r * 8 + f

\* for x in seq { out.extend(Op(x)) }
Range(seq) == {seq[i] : i \in DOMAIN seq}

FlatMap(seq, Op(_)) ==
    LET F[i \in 0 .. Len(seq)] ==
            IF i = 0 THEN <<>> ELSE F[i - 1] \o Op(seq[i])
    IN  F[Len(seq)]

\* ------------------------------------------------------------------------
\* board/chessmove.rs
\* ------------------------------------------------------------------------

\* ChessMove::new: src(6) | dst(6) | promo(2) | is_promo(1)
PromoCode(p) ==
    CASE p = Knight -> 0
      [] p = Bishop -> 1
      [] p = Rook   -> 2
      [] p = Queen  -> 3
      [] OTHER      -> 3

ChessMoveNew(src, dst, promotion) ==
    src + dst * 64
        + (IF promotion = NoPiece THEN 0 ELSE PromoCode(promotion) * 4096 + 16384)

get_source(mv) == mv % 64
get_dest(mv) == (mv \div 64) % 64
get_promotion(mv) ==
    IF (mv \div 16384) % 2 = 0 THEN NoPiece
    ELSE CASE (mv \div 4096) % 4 = 0 -> Knight
           [] (mv \div 4096) % 4 = 1 -> Bishop
           [] (mv \div 4096) % 4 = 2 -> Rook
           [] OTHER                  -> Queen

\* ------------------------------------------------------------------------
\* board/attacks.rs, board/magic.rs
\* ------------------------------------------------------------------------

OnBoard(nr, nf) == nr \in 0 .. 7 /\ nf \in 0 .. 7

LeaperAttacks(sq, offsets) ==
    {make_square(rank(sq) + o[1], file(sq) + o[2]) :
        o \in {p \in offsets : OnBoard(rank(sq) + p[1], file(sq) + p[2])}}

KnightOffsets ==
    {<<-2, -1>>, <<-2, 1>>, <<-1, -2>>, <<-1, 2>>,
     <<1, -2>>, <<1, 2>>, <<2, -1>>, <<2, 1>>}
KingOffsets ==
    {<<-1, -1>>, <<-1, 0>>, <<-1, 1>>, <<0, -1>>,
     <<0, 1>>, <<1, -1>>, <<1, 0>>, <<1, 1>>}

KNIGHT_ATTACKS == [sq \in Squares |-> LeaperAttacks(sq, KnightOffsets)]
KING_ATTACKS == [sq \in Squares |-> LeaperAttacks(sq, KingOffsets)]
PAWN_ATTACKS ==
    [c \in {White, Black} |-> [sq \in Squares |->
        IF c = White
        THEN LeaperAttacks(sq, {<<1, -1>>, <<1, 1>>})
        ELSE LeaperAttacks(sq, {<<-1, -1>>, <<-1, 1>>})]]

knight_attacks(sq) == KNIGHT_ATTACKS[sq]
king_attacks(sq) == KING_ATTACKS[sq]
pawn_attacks(color, sq) == PAWN_ATTACKS[color][sq]

\* one ray of bishop_attacks_slow / rook_attacks_slow: trace until a blocker
RECURSIVE TraceRay(_, _, _, _, _)
TraceRay(nr, nf, dr, df, occupied) ==
    IF ~OnBoard(nr, nf) THEN {}
    ELSE LET bit == nr * 8 + nf
         IN  IF bit \in occupied THEN {bit}
             ELSE {bit} \cup TraceRay(nr + dr, nf + df, dr, df, occupied)

BishopDirs == {<<1, 1>>, <<1, -1>>, <<-1, 1>>, <<-1, -1>>}
RookDirs == {<<0, 1>>, <<0, -1>>, <<1, 0>>, <<-1, 0>>}

bishop_attacks_slow(sq, occupied) ==
    UNION {TraceRay(rank(sq) + d[1], file(sq) + d[2], d[1], d[2], occupied) :
              d \in BishopDirs}

rook_attacks_slow(sq, occupied) ==
    UNION {TraceRay(rank(sq) + d[1], file(sq) + d[2], d[1], d[2], occupied) :
              d \in RookDirs}

\* relevant occupancy masks (edges excluded)
RECURSIVE MaskRay(_, _, _, _)
MaskRay(nr, nf, dr, df) ==
    IF nr > 0 /\ nr < 7 /\ nf > 0 /\ nf < 7
    THEN {nr * 8 + nf} \cup MaskRay(nr + dr, nf + df, dr, df)
    ELSE {}

BISHOP_MASK ==
    [sq \in Squares |->
        UNION {MaskRay(rank(sq) + d[1], file(sq) + d[2], d[1], d[2]) :
                  d \in BishopDirs}]
ROOK_MASK ==
    [sq \in Squares |->
        {rank(sq) * 8 + nf : nf \in (1 .. 6) \ {file(sq)}}
            \cup {nr * 8 + file(sq) : nr \in (1 .. 6) \ {rank(sq)}}]

bishop_mask(sq) == BISHOP_MASK[sq]
rook_mask(sq) == ROOK_MASK[sq]

\* The magic tables hold, at magic_index(entry, occupied), the slow attack
\* set of the blockers occupied & entry.mask: find_magic accepts a magic
\* only if two occupancies that share an index have the same attack set.
bishop_attacks(sq, occupied) ==
    bishop_attacks_slow(sq, occupied \cap bishop_mask(sq))

rook_attacks(sq, occupied) ==
    rook_attacks_slow(sq, occupied \cap rook_mask(sq))

\* ------------------------------------------------------------------------
\* board/zobrist.rs
\* ------------------------------------------------------------------------

\* 0x3243F6A8885A308D
ZobristSeed ==
    {0, 2, 3, 7, 12, 13, 17, 19, 20, 22, 27, 31, 35, 37, 39, 41, 42, 44, 45,
     46, 47, 48, 49, 54, 57, 60, 61}

\* XorShift64::next: x ^= x << 13; x ^= x >> 7; x ^= x << 17
XorShl(x, k) == Xor(x, Shl(x, k))
XorShr(x, k) == Xor(x, Shr(x, k))
XorShift64Next(s0) == XorShl(XorShr(XorShl(s0, 13), 7), 17)

\* the first n outputs (n >= 1) of the generator started at state s; the
\* state after an output is that output
RECURSIVE XorShiftOutputs(_, _)
XorShiftMore(first, n) == first \o XorShiftOutputs(first[Len(first)], n)
XorShiftOutputs(s, n) ==
    IF n = 1 THEN <<XorShift64Next(s)>>
    ELSE XorShiftMore(XorShiftOutputs(s, n \div 2), n - n \div 2)

\* KEYS: piece[6][2][64], then side, castling[16], ep[8], drawn in that order
KEYS == XorShiftOutputs(ZobristSeed, 6 * 2 * 64 + 1 + 16 + 8)

piece_key(piece, color, sq) == KEYS[piece * 128 + color * 64 + sq + 1]
side_key == KEYS[769]
\* castling rights are the set of their bits {1, 2, 4, 8}
CastlingIndex(rights) ==
    (IF 1 \in rights THEN 1 ELSE 0) + (IF 2 \in rights THEN 2 ELSE 0)
        + (IF 4 \in rights THEN 4 ELSE 0) + (IF 8 \in rights THEN 8 ELSE 0)
castling_key(rights) == KEYS[770 + CastlingIndex(rights)]
ep_key(f) == KEYS[786 + f]


\* ------------------------------------------------------------------------
\* board/board.rs
\* ------------------------------------------------------------------------

WK == 1
WQ == 2
BK == 4
BQ == 8

\* CASTLING_MASK[sq], as the set of the rights it keeps
CASTLING_MASK(sq) ==
    CASE sq = 0  -> {WK, BK, BQ}
      [] sq = 7  -> {WQ, BK, BQ}
      [] sq = 4  -> {BK, BQ}
      [] sq = 56 -> {WK, WQ, BK}
      [] sq = 63 -> {WK, WQ, BQ}
      [] sq = 60 -> {WK, WQ}
      [] OTHER   -> {WK, WQ, BK, BQ}

combined(b) == b.colors[White] \cup b.colors[Black]

\* Piece::ALL.into_iter().find(..): the first piece type with the bit set
piece_on(b, sq) ==
    IF \E p \in 0 .. 5 : sq \in b.pieces[p]
    THEN CHOOSE p \in 0 .. 5 :
            sq \in b.pieces[p] /\ \A q \in 0 .. 5 : sq \in b.pieces[q] => p <= q
    ELSE NoPiece

\* the attackers, among the pieces of `enemy`, of square sq seen from the
\* side `color` (the five tests shared by compute_checkers,
\* is_king_attacked and is_square_attacked)
AttackersOf(b, sq, color, enemy) ==
    LET occupied == combined(b)
    IN  (knight_attacks(sq) \cap b.pieces[Knight] \cap enemy)
        \cup (pawn_attacks(color, sq) \cap b.pieces[Pawn] \cap enemy)
        \cup (bishop_attacks(sq, occupied)
                \cap (b.pieces[Bishop] \cup b.pieces[Queen]) \cap enemy)
        \cup (rook_attacks(sq, occupied)
                \cap (b.pieces[Rook] \cup b.pieces[Queen]) \cap enemy)
        \cup (king_attacks(sq) \cap b.pieces[King] \cap enemy)

compute_checkers(b) ==
    LET us == b.side_to_move
        our_king_bb == b.pieces[King] \cap b.colors[us]
    IN  IF our_king_bb = {} THEN EMPTY
        ELSE AttackersOf(b, trailing_zeros(our_king_bb), us,
                         b.colors[NotColor(us)])

\* the XOR of the keys of the pieces (piece, color) on the squares of bb
XorPieceKeys(bb, piece, color) ==
    LET sqs == BitBoardIter(bb)
        F[i \in 0 .. Len(sqs)] ==
            IF i = 0 THEN {}
            ELSE Xor(F[i - 1], piece_key(piece, color, sqs[i]))
    IN  F[Len(sqs)]

PieceKeysXor(b) ==
    LET F[i \in 0 .. 12] ==
            IF i = 0 THEN {}
            ELSE LET piece == (i - 1) \div 2
                     color == (i - 1) % 2
                 IN  Xor(F[i - 1],
                         XorPieceKeys(b.pieces[piece] \cap b.colors[color],
                                      piece, color))
    IN  F[12]

\* the side, castling and en-passant keys, XORed into the piece keys h
StateKeysXor(h, b) ==
    LET h2 == IF b.side_to_move = Black THEN Xor(h, side_key) ELSE h
        h3 == Xor(h2, castling_key(b.castling))
    IN  IF b.ep_square # NoSquare
        THEN Xor(h3, ep_key(file(b.ep_square)))
        ELSE h3

compute_hash(b) == StateKeysXor(PieceKeysXor(b), b)

\* self.hash = ...; self.checkers = self.compute_checkers()
WithHash(b) == [b EXCEPT !.hash = compute_hash(b)]
WithCheckers(b) == [b EXCEPT !.checkers = compute_checkers(b)]

\* move_piece that leaves the hash alone
move_piece_keep_hash(b, piece, color, from, to) ==
    [b EXCEPT
        !.pieces[piece] = Xor(@, {from} \cup {to}),
        !.colors[color] = Xor(@, {from} \cup {to})]

\* Board::move_piece (the rook of a castling move)
move_piece(b, piece, color, from, to) ==
    [b EXCEPT
        !.pieces[piece] = Xor(@, {from} \cup {to}),
        !.colors[color] = Xor(@, {from} \cup {to}),
        !.hash = Xor(Xor(@, piece_key(piece, color, from)),
                     piece_key(piece, color, to))]

\* u8 arithmetic of the half-move clock
U8(n) == n % 256

\* the three statements that take a piece off a square or put it on one:
\* pieces[piece] ^= bb; color_bb[color] ^= bb; hash ^= piece_key
TogglePiece(b, piece, color, sq) ==
    [b EXCEPT
        !.pieces[piece] = Xor(@, {sq}),
        !.colors[color] = Xor(@, {sq}),
        !.hash = Xor(@, piece_key(piece, color, sq))]

\* make_move_new, remove the old hash components (castling, en passant)
RemoveStateKeys(self) ==
    LET h0 == Xor(self.hash, castling_key(self.castling))
    IN  [self EXCEPT !.hash =
            IF self.ep_square # NoSquare
            THEN Xor(h0, ep_key(file(self.ep_square))) ELSE h0]

\* a capture that leaves the captured piece in the color bitboard
CaptureOn_pieces_only(b, them, dst, captured) ==
    IF captured # NoPiece
    THEN [b EXCEPT !.pieces[captured] = Xor(@, {dst})] ELSE b

\* make_move_new, the regular capture
CaptureOn(b, them, dst, captured) ==
    IF captured # NoPiece THEN TogglePiece(b, captured, them, dst) ELSE b

\* make_move_new, the en-passant capture
IsEnPassant(self, dst, piece, captured) ==
    piece = Pawn /\ self.ep_square = dst /\ captured = NoPiece

CaptureEnPassant(b, is_ep, us, dst) ==
    IF is_ep
    THEN TogglePiece(b, Pawn, NotColor(us), IF us = White THEN dst - 8 ELSE dst + 8)
    ELSE b

\* make_move_new, the rook of a castling move
CastleRook(b, piece, us, src, dst) ==
    IF piece = King /\ file(src) = 4 /\ (file(dst) = 6 \/ file(dst) = 2)
    THEN move_piece(b, Rook, us,
                    make_square(rank(src), IF file(dst) = 6 THEN 7 ELSE 0),
                    make_square(rank(src), IF file(dst) = 6 THEN 5 ELSE 3))
    ELSE b

\* make_move_new, the new en-passant square
NewEpSquare(piece, src, dst) ==
    IF piece = Pawn /\ (rank(src) - rank(dst) = 2 \/ rank(dst) - rank(src) = 2)
    THEN make_square((rank(src) + rank(dst)) \div 2, file(src))
    ELSE NoSquare

\* make_move_new, the castling rights, the en-passant square, the clock,
\* the new hash components and the side to move
UpdateState(b, castling, ep_square, halfmove_clock) ==
    LET h6 == Xor(b.hash, castling_key(castling))
        h7 == IF ep_square # NoSquare
              THEN Xor(h6, ep_key(file(ep_square))) ELSE h6
    IN  [b EXCEPT
            !.castling = castling,
            !.ep_square = ep_square,
            !.halfmove_clock = halfmove_clock,
            !.side_to_move = NotColor(@),
            !.hash = Xor(h7, side_key)]

MakeMove(self, src, dst, promotion, piece, captured) ==
    WithCheckers(
        UpdateState(
            CastleRook(
                TogglePiece(
                    CaptureEnPassant(
                        CaptureOn(
                            TogglePiece(RemoveStateKeys(self), piece,
                                        self.side_to_move, src),
                            NotColor(self.side_to_move), dst, captured),
                        IsEnPassant(self, dst, piece, captured),
                        self.side_to_move, dst),
                    IF promotion # NoPiece THEN promotion ELSE piece,
                    self.side_to_move, dst),
                piece, self.side_to_move, src, dst),
            (self.castling \cap CASTLING_MASK(src)) \cap CASTLING_MASK(dst),
            NewEpSquare(piece, src, dst),
            IF piece = Pawn \/ captured # NoPiece
                  \/ IsEnPassant(self, dst, piece, captured)
            THEN 0 ELSE U8(self.halfmove_clock + 1)))

make_move_new(self, mv) ==
    MakeMove(self, get_source(mv), get_dest(mv), get_promotion(mv),
             piece_on(self, get_source(mv)), piece_on(self, get_dest(mv)))

\* Board::null_move; None (in check) is the record [none |-> TRUE]
\* a null move that hands the move to Black whoever is to move
null_move_to_black(self) ==
    IF self.checkers # {} THEN [none |-> TRUE]
    ELSE WithCheckers(
            [self EXCEPT
                !.ep_square = NoSquare,
                !.side_to_move = Black,
                !.hash = Xor(IF self.ep_square # NoSquare
                             THEN Xor(@, ep_key(file(self.ep_square)))
                             ELSE @,
                             side_key)])

\* a null move that leaves the en-passant square in place
null_move_keep_ep(self) ==
    IF self.checkers # {} THEN [none |-> TRUE]
    ELSE WithCheckers(
            [self EXCEPT
                !.side_to_move = NotColor(@),
                !.hash = Xor(@, side_key)])

null_move(self) ==
    IF self.checkers # {} THEN [none |-> TRUE]
    ELSE WithCheckers(
            [self EXCEPT
                !.ep_square = NoSquare,
                !.side_to_move = NotColor(@),
                !.hash = Xor(IF self.ep_square # NoSquare
                             THEN Xor(@, ep_key(file(self.ep_square)))
                             ELSE @,
                             side_key)])

\* FEN parsing (impl FromStr for Board).  A FEN is given split in its
\* fields, each text field as the sequence of its characters:
\*   [placement, side, castling, ep : sequences of one-character strings,
\*    halfmove : the parsed fifth field (0 when absent or not a u8)]
\* Err(_) is the record [err |-> TRUE].
DigitValue(ch) ==
    CASE ch = "0" -> 0 [] ch = "1" -> 1 [] ch = "2" -> 2 [] ch = "3" -> 3
      [] ch = "4" -> 4 [] ch = "5" -> 5 [] ch = "6" -> 6 [] ch = "7" -> 7
      [] ch = "8" -> 8 [] ch = "9" -> 9 [] OTHER -> -1

PieceOfChar(ch) ==
    CASE ch \in {"p", "P"} -> Pawn
      [] ch \in {"n", "N"} -> Knight
      [] ch \in {"b", "B"} -> Bishop
      [] ch \in {"r", "R"} -> Rook
      [] ch \in {"q", "Q"} -> Queen
      [] ch \in {"k", "K"} -> King
      [] OTHER -> NoPiece

FileOfChar(ch) ==
    CASE ch = "a" -> 0 [] ch = "b" -> 1 [] ch = "c" -> 2 [] ch = "d" -> 3
      [] ch = "e" -> 4 [] ch = "f" -> 5 [] ch = "g" -> 6 [] ch = "h" -> 7
      [] OTHER -> 8

\* one turn of the placement loop: state [pieces, colors, rank, file, err]
PlacePieceChar(st, piece, color, sq) ==
    IF piece = NoPiece \/ st.rank \notin 0 .. 7 \/ st.file \notin 0 .. 7
    THEN [st EXCEPT !.err = TRUE]
    ELSE [st EXCEPT
            !.pieces[piece] = Xor(@, {sq}),
            !.colors[color] = Xor(@, {sq}),
            !.file = @ + 1]

PlacementChar(st, ch) ==
    IF ch = "/" THEN [st EXCEPT !.rank = @ - 1, !.file = 0]
    ELSE IF DigitValue(ch) >= 0 THEN [st EXCEPT !.file = @ + DigitValue(ch)]
    ELSE PlacePieceChar(st, PieceOfChar(ch),
                        IF ch \in {"P", "N", "B", "R", "Q", "K"}
                        THEN White ELSE Black,
                        make_square(st.rank, st.file))

\* the turns lo..hi of the placement loop
RECURSIVE PlacementChars(_, _, _, _)
PlacementChars(st, chars, lo, hi) ==
    IF st.err \/ lo > hi THEN st
    ELSE IF lo = hi THEN PlacementChar(st, chars[lo])
    ELSE PlacementChars(PlacementChars(st, chars, lo, (lo + hi) \div 2),
                        chars, (lo + hi) \div 2 + 1, hi)

ParsePlacement(chars) ==
    PlacementChars([pieces |-> [p \in 0 .. 5 |-> EMPTY],
                    colors |-> [c \in 0 .. 1 |-> EMPTY],
                    rank |-> 7, file |-> 0, err |-> FALSE],
                   chars, 1, Len(chars))

ParseCastling(chars) ==
    LET Bit(ch) == CASE ch = "K" -> {WK} [] ch = "Q" -> {WQ}
                     [] ch = "k" -> {BK} [] ch = "q" -> {BQ} [] OTHER -> {}
    IN  IF \E i \in 1 .. Len(chars) : chars[i] \notin {"K", "Q", "k", "q", "-"}
        THEN [err |-> TRUE]
        ELSE [err |-> FALSE,
              castling |-> UNION {Bit(chars[i]) : i \in 1 .. Len(chars)}]

ParseEp(chars) ==
    IF chars = <<"-">> THEN NoSquare
    ELSE IF Len(chars) >= 2
    THEN LET f == FileOfChar(chars[1])
             r == IF DigitValue(chars[2]) \in 1 .. 8
                  THEN DigitValue(chars[2]) - 1 ELSE 8
         IN  IF f < 8 /\ r < 8 THEN make_square(r, f) ELSE NoSquare
    ELSE NoSquare

\* from_str after the placement and castling fields are parsed
BuildBoard(fen, pl, ca) ==
    IF pl.err \/ fen.side \notin {<<"w">>, <<"b">>} \/ ca.err
    THEN [err |-> TRUE]
    ELSE WithCheckers(WithHash(
            [pieces |-> pl.pieces,
             colors |-> pl.colors,
             side_to_move |-> IF fen.side = <<"w">> THEN White ELSE Black,
             castling |-> ca.castling,
             ep_square |-> ParseEp(fen.ep),
             halfmove_clock |-> fen.halfmove,
             hash |-> {},
             checkers |-> EMPTY]))

from_str(fen) ==
    BuildBoard(fen, ParsePlacement(fen.placement), ParseCastling(fen.castling))

\* ------------------------------------------------------------------------
\* board/movegen.rs
\* ------------------------------------------------------------------------

\* is_square_attacked: is sq attacked by the opponent of `color`
is_square_attacked(b, sq, color) ==
    AttackersOf(b, sq, color, b.colors[NotColor(color)]) # {}

is_king_attacked(b, color) ==
    LET king_bb == b.pieces[King] \cap b.colors[color]
    IN  IF king_bb = {} THEN FALSE
        ELSE is_square_attacked(b, trailing_zeros(king_bb), color)

PromoPieces == <<Queen, Rook, Bishop, Knight>>

\* the moves of one pawn, in the order generate_pawn_moves pushes them
PawnMovesOf(b, us, sq) ==
    LET their_pieces == b.colors[NotColor(us)]
        empty == Squares \ combined(b)
        promo_rank == IF us = White THEN 7 ELSE 0
        push_dir == IF us = White THEN 8 ELSE -8
        start_rank == IF us = White THEN 1 ELSE 6
        push_sq == sq + push_dir
        double_sq == sq + push_dir * 2
        Promos(dst) == [i \in 1 .. 4 |-> ChessMoveNew(sq, dst, PromoPieces[i])]
        pushes ==
            IF push_sq \in 0 .. 63 /\ push_sq \in empty
            THEN IF rank(push_sq) = promo_rank
                 THEN Promos(push_sq)
                 ELSE <<ChessMoveNew(sq, push_sq, NoPiece)>>
                      \o (IF rank(sq) = start_rank /\ double_sq \in empty
                          THEN <<ChessMoveNew(sq, double_sq, NoPiece)>>
                          ELSE <<>>)
            ELSE <<>>
        CaptureTo(dst) ==
            IF rank(dst) = promo_rank THEN Promos(dst)
            ELSE <<ChessMoveNew(sq, dst, NoPiece)>>
        captures ==
            FlatMap(BitBoardIter(pawn_attacks(us, sq) \cap their_pieces),
                    CaptureTo)
        ep == IF b.ep_square # NoSquare
                 /\ (pawn_attacks(us, sq) \cap {b.ep_square}) # {}
              THEN <<ChessMoveNew(sq, b.ep_square, NoPiece)>>
              ELSE <<>>
    IN  pushes \o captures \o ep

generate_pawn_moves(b, us) ==
    LET Of(sq) == PawnMovesOf(b, us, sq)
    IN  FlatMap(BitBoardIter(b.pieces[Pawn] \cap b.colors[us]), Of)

\* a generator of castling moves that ignores the attacked squares
generate_castling_unchecked(b, king_sq, us) ==
    LET occupied == combined(b)
        ks_right == IF us = White THEN WK ELSE BK
        qs_right == IF us = White THEN WQ ELSE BQ
        r == IF us = White THEN 0 ELSE 7
        kingside ==
            IF ks_right \in b.castling
               /\ ({make_square(r, 5), make_square(r, 6)} \cap occupied) = EMPTY
            THEN <<ChessMoveNew(king_sq, make_square(r, 6), NoPiece)>> ELSE <<>>
        queenside ==
            IF qs_right \in b.castling
               /\ ({make_square(r, 3), make_square(r, 2), make_square(r, 1)}
                        \cap occupied) = EMPTY
            THEN <<ChessMoveNew(king_sq, make_square(r, 2), NoPiece)>> ELSE <<>>
    IN  kingside \o queenside

generate_castling(b, king_sq, us) ==
    LET occupied == combined(b)
        ks_right == IF us = White THEN WK ELSE BK
        qs_right == IF us = White THEN WQ ELSE BQ
        r == IF us = White THEN 0 ELSE 7
        f_sq == make_square(r, 5)
        g_sq == make_square(r, 6)
        d_sq == make_square(r, 3)
        c_sq == make_square(r, 2)
        b_sq == make_square(r, 1)
        kingside ==
            IF ks_right \in b.castling
               /\ ({f_sq, g_sq} \cap occupied) = EMPTY
               /\ ~is_king_attacked(b, us)
               /\ ~is_square_attacked(b, f_sq, us)
               /\ ~is_square_attacked(b, g_sq, us)
            THEN <<ChessMoveNew(king_sq, g_sq, NoPiece)>> ELSE <<>>
        queenside ==
            IF qs_right \in b.castling
               /\ ({d_sq, c_sq, b_sq} \cap occupied) = EMPTY
               /\ ~is_king_attacked(b, us)
               /\ ~is_square_attacked(b, d_sq, us)
               /\ ~is_square_attacked(b, c_sq, us)
            THEN <<ChessMoveNew(king_sq, c_sq, NoPiece)>> ELSE <<>>
    IN  kingside \o queenside

\* the moves of the pieces of one type, given the attack set of a square
PieceMoves(b, us, piece, Attacks(_)) ==
    LET our_pieces == b.colors[us]
        Of(sq) ==
            LET To(dst) == <<ChessMoveNew(sq, dst, NoPiece)>>
            IN  FlatMap(BitBoardIter(Attacks(sq) \ our_pieces), To)
    IN  FlatMap(BitBoardIter(b.pieces[piece] \cap our_pieces), Of)

generate_pseudo_legal(b) ==
    LET us == b.side_to_move
        occupied == combined(b)
        BAtt(sq) == bishop_attacks(sq, occupied)
        RAtt(sq) == rook_attacks(sq, occupied)
        QAtt(sq) == bishop_attacks(sq, occupied) \cup rook_attacks(sq, occupied)
        king_bb == b.pieces[King] \cap b.colors[us]
    IN  generate_pawn_moves(b, us)
        \o PieceMoves(b, us, Knight, knight_attacks)
        \o PieceMoves(b, us, Bishop, BAtt)
        \o PieceMoves(b, us, Rook, RAtt)
        \o PieceMoves(b, us, Queen, QAtt)
        \o (IF king_bb # {}
            THEN LET king_sq == trailing_zeros(king_bb)
                     To(dst) == <<ChessMoveNew(king_sq, dst, NoPiece)>>
                 IN  FlatMap(BitBoardIter(king_attacks(king_sq) \ b.colors[us]), To)
                     \o generate_castling(b, king_sq, us)
            ELSE <<>>)

\* MoveGen::new_legal: the legal moves, in generation order
LegalMoves(b) ==
    LET Keep(mv) == ~is_king_attacked(make_move_new(b, mv), b.side_to_move)
    IN  SelectSeq(generate_pseudo_legal(b), Keep)

MoveGenOf(legal_moves) ==
    [moves |-> legal_moves,
     consumed |-> [i \in 1 .. Len(legal_moves) |-> FALSE],
     index |-> 0,
     mask |-> Squares]

new_legal(b) == MoveGenOf(LegalMoves(b))

\* set_iterator_mask that leaves the index where the last pass stopped
set_iterator_mask_keep_index(mg, mask) == [mg EXCEPT !.mask = mask]

set_iterator_mask(mg, mask) == [mg EXCEPT !.mask = mask, !.index = 0]

\* Iterator::next for MoveGen: <<the generator after the call, the move or NoMove>>
RECURSIVE MoveGenNext(_)
MoveGenNext(mg) ==
    IF mg.index < Len(mg.moves)
    THEN LET i == mg.index
             mg1 == [mg EXCEPT !.index = i + 1]
             mv == mg.moves[i + 1]
         IN  IF mg.consumed[i + 1] THEN MoveGenNext(mg1)
             ELSE IF ({get_dest(mv)} \cap mg.mask) = {} THEN MoveGenNext(mg1)
             ELSE <<[mg1 EXCEPT !.consumed[i + 1] = TRUE], mv>>
    ELSE <<mg, NoMove>>



\* ------------------------------------------------------------------------
\* types.rs
\* ------------------------------------------------------------------------

SCORE_INFINITY == 30000
SCORE_MATE == 29000
MAX_PLY == 128
DEFAULT_DEPTH == 5
DEFAULT_HASH_MB == 64
HISTORY_MAX == 16384

\* ------------------------------------------------------------------------
\* tt.rs.  Option<T> is <<>> for None and <<v>> for Some(v).  The vector of
\* entries is kept by the slots that were written: every other slot holds
\* TTEntry::default().
\* ------------------------------------------------------------------------

TTEntryDefault ==
    [key |-> {}, depth |-> 0, score |-> 0, flag |-> "Exact",
     best_move |-> NoMove, age |-> 0]

\* std::mem::size_of::<TTEntry>(): u64, i32, Option<ChessMove> (4 bytes),
\* three single bytes, padded to the alignment of u64
TTEntrySize == 24

\* usize::next_power_of_two
next_power_of_two(n) ==
    2 ^ (CHOOSE k \in 0 .. 30 : 2 ^ k >= n /\ (k = 0 \/ 2 ^ (k - 1) < n))

\* TranspositionTable::new; mask = size - 1 as the set of its bits
tt_new(mb) ==
    LET num_entries == (mb * 1024 * 1024) \div TTEntrySize
        size0 == next_power_of_two(num_entries) \div 2
        size == IF size0 > 1024 THEN size0 ELSE 1024
    IN  [mask |-> {i \in 0 .. 30 : 2 ^ i < size},
         entries |-> <<>>,
         generation |-> 0]

\* self.entries[idx]
EntryAt(tt, idx) ==
    IF idx \in DOMAIN tt.entries THEN tt.entries[idx] ELSE TTEntryDefault

\* a generation that stays at 255
new_search_saturating(tt) ==
    [tt EXCEPT !.generation = IF @ = 255 THEN 255 ELSE @ + 1]

\* self.generation.wrapping_add(1)
new_search(tt) == [tt EXCEPT !.generation = (@ + 1) % 256]

probe(tt, hash) ==
    LET idx == hash \cap tt.mask
        entry == EntryAt(tt, idx)
    IN  IF entry.key = hash THEN <<entry>> ELSE <<>>

\* retrieve_score without the adjustment of mate scores
retrieve_score_raw(entry, ply, alpha, beta) ==
    CASE entry.flag = "Exact" -> <<entry.score>>
      [] entry.flag = "LowerBound" ->
            IF entry.score >= beta THEN <<entry.score>> ELSE <<>>
      [] entry.flag = "UpperBound" ->
            IF entry.score <= alpha THEN <<entry.score>> ELSE <<>>

retrieve_score(entry, ply, alpha, beta) ==
    LET score == IF entry.score > SCORE_MATE - 100 THEN entry.score - ply
                 ELSE IF entry.score < -SCORE_MATE + 100 THEN entry.score + ply
                 ELSE entry.score
    IN  CASE entry.flag = "Exact" -> <<score>>
          [] entry.flag = "LowerBound" ->
                IF score >= beta THEN <<score>> ELSE <<>>
          [] entry.flag = "UpperBound" ->
                IF score <= alpha THEN <<score>> ELSE <<>>

\* a replacement test that keeps an entry of equal depth
should_replace_deeper(tt, hash, depth) ==
    LET entry == EntryAt(tt, hash \cap tt.mask)
    IN  \/ entry.key = {}
        \/ entry.key = hash
        \/ depth > entry.depth
        \/ entry.age # tt.generation

\* the replacement test of store
should_replace(tt, hash, depth) ==
    LET entry == EntryAt(tt, hash \cap tt.mask)
    IN  \/ entry.key = {}
        \/ entry.key = hash
        \/ depth >= entry.depth
        \/ entry.age # tt.generation

\* store without the adjustment of mate scores
store_unadjusted(tt, hash, depth, score, flag, best_move, ply) ==
    LET idx == hash \cap tt.mask
    IN  IF ~should_replace(tt, hash, depth) THEN tt
        ELSE [tt EXCEPT !.entries =
                [i \in DOMAIN tt.entries \cup {idx} |->
                    IF i = idx
                    THEN [key |-> hash, depth |-> depth, score |-> score,
                          flag |-> flag, best_move |-> best_move,
                          age |-> tt.generation]
                    ELSE tt.entries[i]]]

store(tt, hash, depth, score, flag, best_move, ply) ==
    LET idx == hash \cap tt.mask
        adjusted == IF score > SCORE_MATE - 100 THEN score + ply
                    ELSE IF score < -SCORE_MATE + 100 THEN score - ply
                    ELSE score
    IN  IF ~should_replace(tt, hash, depth) THEN tt
        ELSE [tt EXCEPT !.entries =
                [i \in DOMAIN tt.entries \cup {idx} |->
                    IF i = idx
                    THEN [key |-> hash, depth |-> depth, score |-> adjusted,
                          flag |-> flag, best_move |-> best_move,
                          age |-> tt.generation]
                    ELSE tt.entries[i]]]

clear(tt) == [tt EXCEPT !.entries = <<>>, !.generation = 0]


\* ------------------------------------------------------------------------
\* pst.rs.  The file is not among the sources: it holds numeric data only.
\* The phase weights and TOTAL_PHASE are the documented ones; the material
\* values are the PeSTO values the tables are named after; the
\* piece-square tables are taken as zero and the MVV values as the piece
\* index plus one.
\* ------------------------------------------------------------------------

MG_PIECE_VALUE == <<82, 337, 365, 477, 1025, 0>>
EG_PIECE_VALUE == <<94, 281, 297, 512, 936, 0>>
PHASE_WEIGHT == <<0, 1, 1, 2, 4, 0>>
TOTAL_PHASE == 24
MG_TABLE == [p \in 0 .. 5 |-> [i \in 0 .. 63 |-> 0]]
EG_TABLE == [p \in 0 .. 5 |-> [i \in 0 .. 63 |-> 0]]
MVV_VALUE == <<1, 2, 3, 4, 5, 6>>

\* ------------------------------------------------------------------------
\* evaluation.rs
\* ------------------------------------------------------------------------

\* i32 division truncates toward zero
I32Div(a, b) == IF a >= 0 THEN a \div b ELSE -((-a) \div b)

color_on(b, sq) ==
    IF sq \in b.colors[White] THEN White
    ELSE IF sq \in b.colors[Black] THEN Black
    ELSE -1

\* sq ^ 56 and sq
pst_index_white(sq) == (7 - rank(sq)) * 8 + file(sq)
pst_index_black(sq) == sq

\* the loop over ALL_SQUARES: [mg, eg : the two sides' sums, phase]
EvalSquare(acc, piece, side, pst_idx) ==
    [mg |-> [acc.mg EXCEPT ![side] =
                @ + MG_PIECE_VALUE[piece + 1] + MG_TABLE[piece][pst_idx]],
     eg |-> [acc.eg EXCEPT ![side] =
                @ + EG_PIECE_VALUE[piece + 1] + EG_TABLE[piece][pst_idx]],
     phase |-> acc.phase + PHASE_WEIGHT[piece + 1]]

EvalSquares(b, sqs) ==
    LET F[i \in 0 .. Len(sqs)] ==
            IF i = 0
            THEN [mg |-> [s \in 0 .. 1 |-> 0], eg |-> [s \in 0 .. 1 |-> 0],
                  phase |-> 0]
            ELSE EvalSquare(F[i - 1], piece_on(b, sqs[i]), color_on(b, sqs[i]),
                            IF color_on(b, sqs[i]) = White
                            THEN pst_index_white(sqs[i])
                            ELSE pst_index_black(sqs[i]))
    IN  F[Len(sqs)]

\* the squares of ALL_SQUARES, in order, where piece_on is Some
OccupiedSquares(b) == BitBoardIter(UNION {b.pieces[p] : p \in 0 .. 5})

\* the tapered score, relative to White
Tapered(mg, eg, phase) ==
    I32Div(mg * phase + eg * (TOTAL_PHASE - phase), TOTAL_PHASE)

EvalScore(acc) ==
    Tapered(acc.mg[White] - acc.mg[Black], acc.eg[White] - acc.eg[Black],
            IF acc.phase > TOTAL_PHASE THEN TOTAL_PHASE ELSE acc.phase)

evaluate(b) ==
    IF b.side_to_move = White
    THEN EvalScore(EvalSquares(b, OccupiedSquares(b)))
    ELSE -EvalScore(EvalSquares(b, OccupiedSquares(b)))

\* ------------------------------------------------------------------------
\* movegen.rs: move ordering.  A ScoredMove is [mv, score].
\* ------------------------------------------------------------------------

piece_to_index(piece) == piece

\* for mv in &mut movegen: <<the generator after the pass, the moves>>
RECURSIVE MoveGenDrain(_, _)
MoveGenDrained(r, out) ==
    IF r[2] = NoMove THEN <<r[1], out>>
    ELSE MoveGenDrain(r[1], Append(out, r[2]))
MoveGenDrain(mg, out) == MoveGenDrained(MoveGenNext(mg), out)

\* scored.sort_unstable_by(|a, b| b.score.cmp(&a.score)): on the at most 20
\* elements the searched positions have, the insertion sort of the standard
\* library, which keeps equal scores in their order
SortRank(scored, i) ==
    1 + Cardinality({j \in 1 .. Len(scored) :
            \/ scored[j].score > scored[i].score
            \/ scored[j].score = scored[i].score /\ j < i})

SortPlace(scored, ranks) ==
    [k \in 1 .. Len(scored) |->
        scored[CHOOSE i \in 1 .. Len(scored) : ranks[i] = k]]

SortByScore(scored) ==
    SortPlace(scored, [i \in 1 .. Len(scored) |-> SortRank(scored, i)])

\* MVV-LVA of a capture on an occupied square, else 0
MvvLva(b, mv) ==
    IF piece_on(b, get_dest(mv)) # NoPiece
    THEN MVV_VALUE[piece_to_index(piece_on(b, get_dest(mv))) + 1] * 10
            - piece_to_index(piece_on(b, get_source(mv)))
    ELSE 0

\* order_moves, first pass
CaptureScore(b, mv, hash_move) ==
    IF mv = hash_move THEN 100000
    ELSE 10000 + MvvLva(b, mv)
            + (IF get_promotion(mv) # NoPiece THEN 9000 ELSE 0)

\* order_moves, second pass
EpScore(mv, hash_move) ==
    IF mv = hash_move THEN 100000 ELSE 10000 + MVV_VALUE[1] * 10

\* history[pi][to]; the table is kept by the cells that were written
HistoryAt(history, pi, to) ==
    IF <<pi, to>> \in DOMAIN history THEN history[<<pi, to>>] ELSE 0

\* order_moves, third pass
QuietScore(b, mv, hash_move, killers, history) ==
    IF mv = hash_move THEN 100000
    ELSE IF get_promotion(mv) # NoPiece THEN 9000
    ELSE IF mv = killers[1] THEN 8000
    ELSE IF mv = killers[2] THEN 7000
    ELSE IF piece_on(b, get_source(mv)) # NoPiece
    THEN HistoryAt(history, piece_to_index(piece_on(b, get_source(mv))),
                   get_dest(mv))
    ELSE 0

\* the three passes over one generator
OrderThirdPass(b, p3, scored, hash_move, killers, history) ==
    scored \o
        [i \in 1 .. Len(p3[2]) |->
            [mv |-> p3[2][i],
             score |-> QuietScore(b, p3[2][i], hash_move, killers, history)]]

OrderSecondPass(b, p2, scored, hash_move, killers, history) ==
    OrderThirdPass(b, MoveGenDrain(set_iterator_mask(p2[1], Squares), <<>>),
        scored \o [i \in 1 .. Len(p2[2]) |->
                      [mv |-> p2[2][i], score |-> EpScore(p2[2][i], hash_move)]],
        hash_move, killers, history)

OrderFirstPass(b, p1, hash_move, killers, history) ==
    OrderSecondPass(b,
        IF b.ep_square # NoSquare
        THEN MoveGenDrain(set_iterator_mask(p1[1], {b.ep_square}), <<>>)
        ELSE <<p1[1], <<>>>>,
        [i \in 1 .. Len(p1[2]) |->
            [mv |-> p1[2][i], score |-> CaptureScore(b, p1[2][i], hash_move)]],
        hash_move, killers, history)

\* order_moves over the generator MoveGen::new_legal(board) made: the
\* scored moves in the order the three passes push them
ScoredMovesOf(b, mg, hash_move, killers, history) ==
    OrderFirstPass(b,
        MoveGenDrain(set_iterator_mask(mg, b.colors[NotColor(b.side_to_move)]),
                     <<>>),
        hash_move, killers, history)

OrderMovesOf(b, mg, hash_move, killers, history) ==
    SortByScore(ScoredMovesOf(b, mg, hash_move, killers, history))

order_moves(b, hash_move, killers, history, ply) ==
    OrderMovesOf(b, new_legal(b), hash_move, killers, history)

\* order_captures
CapturesSecondPass(p2, scored) ==
    scored \o
        [i \in 1 .. Len(p2[2]) |-> [mv |-> p2[2][i], score |-> MVV_VALUE[1] * 10]]

CapturesFirstPass(b, p1) ==
    CapturesSecondPass(
        IF b.ep_square # NoSquare
        THEN MoveGenDrain(set_iterator_mask(p1[1], {b.ep_square}), <<>>)
        ELSE <<p1[1], <<>>>>,
        [i \in 1 .. Len(p1[2]) |->
            [mv |-> p1[2][i],
             score |-> MvvLva(b, p1[2][i])
                        + (IF get_promotion(p1[2][i]) # NoPiece THEN 9000 ELSE 0)]])

\* the scored captures in the order the two passes push them
ScoredCapturesOf(b, mg) ==
    CapturesFirstPass(b,
        MoveGenDrain(set_iterator_mask(mg, b.colors[NotColor(b.side_to_move)]),
                     <<>>))

OrderCapturesOf(b, mg) == SortByScore(ScoredCapturesOf(b, mg))

order_captures(b) == OrderCapturesOf(b, new_legal(b))

\* ------------------------------------------------------------------------
\* board.rs: status
\* ------------------------------------------------------------------------

has_legal_move(b) == MoveGenNext(new_legal(b))[2] # NoMove

StatusOf(b, has_move) ==
    IF has_move THEN "Ongoing"
    ELSE IF b.checkers # EMPTY THEN "Checkmate"
    ELSE "Stalemate"

status(b) == StatusOf(b, has_legal_move(b))

\* Board::legal
legal(b, mv) == mv \in Range(LegalMoves(b))


\* ------------------------------------------------------------------------
\* search.rs.  A SearchState is the record of its fields; start_time is the
\* count of node ticks (the clock advances one millisecond per node), the
\* killer and history tables are kept by the cells that were written, and
\* no tablebase is loaded (syzygy = None, as SearchState::new leaves it).
\* The stop flag is shared with other threads: stop_at is the number of the
\* first load of the flag that finds it set by another thread (0: never),
\* loads counts the loads so far.
\* ------------------------------------------------------------------------

SearchStateNew ==
    [nodes |-> 0, ticks |-> 0, stop |-> FALSE, stop_at |-> 0, loads |-> 0,
     time_limit_ms |-> 0, killers |-> <<>>, history |-> <<>>,
     tt |-> tt_new(DEFAULT_HASH_MB), root_best_move |-> NoMove,
     position_history |-> <<>>]

\* SearchState::reset
reset(st) ==
    [st EXCEPT
        !.nodes = 0, !.stop = FALSE, !.killers = <<>>, !.history = <<>>,
        !.ticks = 0, !.tt = new_search(@), !.root_best_move = NoMove]

\* SearchState::check_time
check_time(st) ==
    IF st.time_limit_ms > 0 /\ st.ticks >= st.time_limit_ms
    THEN [st EXCEPT !.stop = TRUE] ELSE st

\* SearchState::is_stopped: the state after the load; its stop field is the
\* value the load returned
is_stopped(st) ==
    [st EXCEPT
        !.loads = @ + 1,
        !.stop = @ \/ (st.stop_at > 0 /\ st.loads + 1 >= st.stop_at)]

\* state.killers[ply]
KillersAt(st, ply) ==
    IF ply \in DOMAIN st.killers THEN st.killers[ply] ELSE <<NoMove, NoMove>>

\* state.nodes += 1 (and the clock)
TickNode(st) == [st EXCEPT !.nodes = @ + 1, !.ticks = @ + 1]

\* negamax: state.nodes += 1; if state.nodes & 2047 == 0 { check_time() }
CheckTimeEvery2048(st) == IF st.nodes % 2048 = 0 THEN check_time(st) ELSE st

PushHistory(st, hash) == [st EXCEPT !.position_history = Append(@, hash)]
PopHistory(st) ==
    [st EXCEPT !.position_history = SubSeq(@, 1, Len(@) - 1)]

\* a returned score with the state the call left
Ret(score, st) == [score |-> score, st |-> st]

MaxOf(a, b) == IF a >= b THEN a ELSE b

RECURSIVE negamax(_, _, _, _, _, _, _)
RECURSIVE quiescence(_, _, _, _, _)
RECURSIVE QuiescenceLoop(_, _, _, _, _, _, _)
RECURSIVE NegamaxLoop(_, _, _, _, _, _, _, _)

\* ---- quiescence ---------------------------------------------------------

\* the body of both move loops of quiescence, after the recursive call
QuiescenceUpdate(acc, st, score, beta) ==
    IF st.stop THEN [acc EXCEPT !.st = st, !.done = TRUE]
    ELSE [st |-> st,
          alpha |-> MaxOf(acc.alpha, score),
          best_score |-> MaxOf(acc.best_score, score),
          done |-> MaxOf(acc.alpha, score) >= beta]

QuiescenceScored(acc, r, beta) ==
    QuiescenceUpdate(acc, is_stopped(r.st), -r.score, beta)

QuiescenceMove(board, mv, ply, beta, acc) ==
    QuiescenceScored(acc,
        quiescence(make_move_new(board, mv), acc.st, ply + 1, -beta, -acc.alpha),
        beta)

\* the turns lo..hi of a move loop of quiescence
QuiescenceLoop(board, moves, lo, hi, ply, beta, acc) ==
    IF acc.done \/ lo > hi THEN acc
    ELSE IF lo = hi THEN QuiescenceMove(board, moves[lo].mv, ply, beta, acc)
    ELSE QuiescenceLoop(board, moves, (lo + hi) \div 2 + 1, hi, ply, beta,
            QuiescenceLoop(board, moves, lo, (lo + hi) \div 2, ply, beta, acc))

QuiescenceReturn(acc) == Ret(acc.best_score, acc.st)

QuiescenceOver(board, moves, ply, beta, st, alpha, best_score) ==
    QuiescenceReturn(
        QuiescenceLoop(board, moves, 1, Len(moves), ply, beta,
            [st |-> st, alpha |-> alpha, best_score |-> best_score,
             done |-> FALSE]))

QuiescenceInCheck(board, st, moves, ply, alpha, beta) ==
    IF moves = <<>> THEN Ret(-SCORE_MATE + ply, st)
    ELSE QuiescenceOver(board, moves, ply, beta, st, alpha, -SCORE_INFINITY)

QuiescenceStandPat(board, st, mg, stand_pat, ply, alpha, beta) ==
    IF stand_pat >= beta THEN Ret(stand_pat, st)
    ELSE QuiescenceOver(board, OrderCapturesOf(board, mg), ply, beta, st,
                        MaxOf(alpha, stand_pat), stand_pat)

\* quiescence after state.nodes += 1, with the generator
\* MoveGen::new_legal(board) that order_moves and order_captures make
QuiescenceNode(board, st, mg, ply, alpha, beta) ==
    IF ply >= MAX_PLY THEN Ret(evaluate(board), st)
    ELSE IF board.checkers # EMPTY
    THEN QuiescenceInCheck(board, st,
            OrderMovesOf(board, mg, NoMove, KillersAt(st, ply), st.history),
            ply, alpha, beta)
    ELSE QuiescenceStandPat(board, st, mg, evaluate(board), ply, alpha, beta)

quiescence(board, st, ply, alpha, beta) ==
    QuiescenceNode(board, TickNode(st), new_legal(board), ply, alpha, beta)

\* ---- negamax ------------------------------------------------------------

\* the killer shift and the history bonus of a quiet cutoff move
UpdateHistory(history, pi, to, depth) ==
    [c \in DOMAIN history \cup {<<pi, to>>} |->
        IF c = <<pi, to>>
        THEN (IF HistoryAt(history, pi, to) + depth * depth > HISTORY_MAX
              THEN HISTORY_MAX
              ELSE HistoryAt(history, pi, to) + depth * depth)
        ELSE history[c]]

UpdateKillers(killers, ply, old, mv) ==
    [p \in DOMAIN killers \cup {ply} |->
        IF p = ply THEN <<mv, old[1]>> ELSE killers[p]]

QuietCutoff(st, board, mv, depth, ply) ==
    [st EXCEPT
        !.killers = UpdateKillers(@, ply, KillersAt(st, ply), mv),
        !.history =
            IF piece_on(board, get_source(mv)) # NoPiece
            THEN UpdateHistory(@, piece_to_index(piece_on(board, get_source(mv))),
                               get_dest(mv), depth)
            ELSE @]

\* the beta cutoff
NegamaxCutoff(board, mv, is_capture, depth, ply, beta, acc) ==
    IF acc.alpha >= beta
    THEN [acc EXCEPT
            !.done = TRUE,
            !.st = IF ~is_capture /\ ply < MAX_PLY
                   THEN QuietCutoff(@, board, mv, depth, ply) ELSE @]
    ELSE acc

\* the body of the move loop after the score of the move is known
NegamaxUpdate(board, mv, is_capture, depth, ply, beta, acc, st, score) ==
    IF st.stop
    THEN [acc EXCEPT !.st = PopHistory(st), !.done = TRUE, !.stopped = TRUE]
    ELSE NegamaxCutoff(board, mv, is_capture, depth, ply, beta,
            [st |-> IF score > acc.best_score /\ ply = 0
                    THEN [st EXCEPT !.root_best_move = mv] ELSE st,
             alpha |-> MaxOf(acc.alpha, score),
             best_score |-> MaxOf(acc.best_score, score),
             best_move |-> IF score > acc.best_score THEN mv ELSE acc.best_move,
             done |-> FALSE, stopped |-> FALSE])

NegamaxScored(board, mv, is_capture, depth, ply, beta, acc, r) ==
    NegamaxUpdate(board, mv, is_capture, depth, ply, beta, acc,
                  is_stopped(r.st), -r.score)

\* a variant of do_lmr that reduces from depth 2 on
do_lmr_from_depth_2(move_num, depth, is_capture, in_check, gives_check, mv, killers) ==
    /\ move_num >= 3
    /\ depth >= 2
    /\ ~is_capture /\ ~in_check /\ ~gives_check
    /\ mv # killers[1] /\ mv # killers[2]

do_lmr(move_num, depth, is_capture, in_check, gives_check, mv, killers) ==
    /\ move_num >= 3
    /\ depth >= 3
    /\ ~is_capture /\ ~in_check /\ ~gives_check
    /\ mv # killers[1] /\ mv # killers[2]

\* the re-search at full depth when the reduced search beats alpha
NegamaxReduced(new_board, depth, ply, alpha, beta, r) ==
    IF -r.score > alpha
    THEN negamax(new_board, r.st, depth - 1, ply + 1, -beta, -alpha, TRUE)
    ELSE r

NegamaxChild(board, new_board, mv, move_num, is_capture, depth, ply, beta, acc) ==
    NegamaxScored(board, mv, is_capture, depth, ply, beta, acc,
        IF do_lmr(move_num, depth, is_capture, board.checkers # EMPTY,
                  new_board.checkers # EMPTY, mv, KillersAt(acc.st, ply))
        THEN NegamaxReduced(new_board, depth, ply, acc.alpha, beta,
                negamax(new_board, acc.st, depth - 2, ply + 1,
                        -acc.alpha - 1, -acc.alpha, TRUE))
        ELSE negamax(new_board, acc.st, depth - 1, ply + 1,
                     -beta, -acc.alpha, TRUE))

\* let is_capture = board.piece_on(mv.get_dest()).is_some()
\*     || board.ep_square == Some(mv.get_dest());
is_capture(board, mv) ==
    \/ piece_on(board, get_dest(mv)) # NoPiece
    \/ board.ep_square = get_dest(mv)

NegamaxMove(board, mv, move_num, depth, ply, beta, acc) ==
    NegamaxChild(board, make_move_new(board, mv), mv, move_num,
                 is_capture(board, mv), depth, ply, beta, acc)

\* the turns lo..hi of the move loop (move_num = index - 1)
NegamaxLoop(board, moves, lo, hi, depth, ply, beta, acc) ==
    IF acc.done \/ lo > hi THEN acc
    ELSE IF lo = hi
    THEN NegamaxMove(board, moves[lo].mv, lo - 1, depth, ply, beta, acc)
    ELSE NegamaxLoop(board, moves, (lo + hi) \div 2 + 1, hi, depth, ply, beta,
            NegamaxLoop(board, moves, lo, (lo + hi) \div 2, depth, ply, beta,
                        acc))

TTFlagOf(best_score, original_alpha, beta) ==
    IF best_score >= beta THEN "LowerBound"
    ELSE IF best_score <= original_alpha THEN "UpperBound"
    ELSE "Exact"

\* after the loop: the stop path has returned best_score; otherwise pop,
\* store and return
NegamaxFinish(board, depth, ply, original_alpha, beta, acc) ==
    IF acc.stopped THEN Ret(acc.best_score, acc.st)
    ELSE Ret(acc.best_score,
             [acc.st EXCEPT
                !.position_history = SubSeq(@, 1, Len(@) - 1),
                !.tt = store(@, board.hash, depth, acc.best_score,
                             TTFlagOf(acc.best_score, original_alpha, beta),
                             acc.best_move, ply)])

NegamaxOrdered(board, st, moves, depth, ply, alpha, beta) ==
    IF moves = <<>> THEN Ret(0, st)
    ELSE NegamaxFinish(board, depth, ply, alpha, beta,
            NegamaxLoop(board, moves, 1, Len(moves), depth, ply, beta,
                [st |-> PushHistory(st, board.hash), alpha |-> alpha,
                 best_score |-> -SCORE_INFINITY, best_move |-> NoMove,
                 done |-> FALSE, stopped |-> FALSE]))

NegamaxMoves(board, st, mg, hash_move, depth, ply, alpha, beta) ==
    NegamaxOrdered(board, st,
        OrderMovesOf(board, mg, hash_move, KillersAt(st, ply), st.history),
        depth, ply, alpha, beta)

\* null move pruning
HasNonPawnMaterial(board) ==
    {sq \in board.colors[board.side_to_move] :
        sq \notin board.pieces[Pawn] /\ sq \notin board.pieces[King]} # {}

NegamaxNullScored(board, st, mg, hash_move, depth, ply, alpha, beta, score) ==
    IF st.stop THEN Ret(0, st)
    ELSE IF score >= beta THEN Ret(beta, st)
    ELSE NegamaxMoves(board, st, mg, hash_move, depth, ply, alpha, beta)

NegamaxNulled(board, mg, hash_move, depth, ply, alpha, beta, r) ==
    NegamaxNullScored(board, is_stopped(PopHistory(r.st)), mg, hash_move,
                      depth, ply, alpha, beta, -r.score)

\* the test of the null move, but with can_null taken to be true
NullMoveTried_whatever_can_null(board, depth, ply, can_null) ==
    /\ board.checkers = EMPTY /\ depth >= 3 /\ ply > 0
    /\ HasNonPawnMaterial(board)
    /\ "none" \notin DOMAIN null_move(board)

\* if can_null && !in_check && depth >= 3 && ply > 0, and then
\* if has_non_pawn_material && let Some(null_board) = board.null_move()
NullMoveTried(board, depth, ply, can_null) ==
    /\ can_null /\ board.checkers = EMPTY /\ depth >= 3 /\ ply > 0
    /\ HasNonPawnMaterial(board)
    /\ "none" \notin DOMAIN null_move(board)

NegamaxNull(board, st, mg, hash_move, depth, ply, alpha, beta, can_null) ==
    IF NullMoveTried(board, depth, ply, can_null)
    THEN NegamaxNulled(board, mg, hash_move, depth, ply, alpha, beta,
            negamax(null_move(board), PushHistory(st, board.hash),
                    depth - 3, ply + 1, -beta, -beta + 1, FALSE))
    ELSE NegamaxMoves(board, st, mg, hash_move, depth, ply, alpha, beta)

\* the transposition table probe
\* a probe that takes the score of an entry of any depth
NegamaxProbed_any_depth(board, st, mg, entry, depth, ply, alpha, beta, can_null) ==
    IF /\ entry # <<>>
       /\ retrieve_score(entry[1], ply, alpha, beta) # <<>>
    THEN Ret(retrieve_score(entry[1], ply, alpha, beta)[1], st)
    ELSE NegamaxNull(board, st, mg,
                     IF entry # <<>> THEN entry[1].best_move ELSE NoMove,
                     depth, ply, alpha, beta, can_null)

NegamaxProbed(board, st, mg, entry, depth, ply, alpha, beta, can_null) ==
    IF /\ entry # <<>>
       /\ entry[1].depth >= depth
       /\ retrieve_score(entry[1], ply, alpha, beta) # <<>>
    THEN Ret(retrieve_score(entry[1], ply, alpha, beta)[1], st)
    ELSE NegamaxNull(board, st, mg,
                     IF entry # <<>> THEN entry[1].best_move ELSE NoMove,
                     depth, ply, alpha, beta, can_null)

\* a node that is a draw only when its hash is in the history twice
NegamaxNode_threefold(board, st, mg, board_status, depth, ply, alpha, beta, can_null) ==
    IF board_status = "Checkmate" THEN Ret(-SCORE_MATE + ply, st)
    ELSE IF board_status = "Stalemate" THEN Ret(0, st)
    ELSE IF /\ ply > 0
            /\ Cardinality({i \in DOMAIN st.position_history :
                                st.position_history[i] = board.hash}) >= 2
    THEN Ret(0, st)
    ELSE IF depth = 0
    THEN QuiescenceNode(board, TickNode(st), mg, ply, alpha, beta)
    ELSE NegamaxProbed(board, st, mg, probe(st.tt, board.hash), depth, ply,
                       alpha, beta, can_null)

\* a node that looks for a repetition before the terminal checks
NegamaxNode_repetition_first(board, st, mg, board_status, depth, ply, alpha, beta, can_null) ==
    IF ply > 0 /\ board.hash \in Range(st.position_history)
    THEN Ret(0, st)
    ELSE IF board_status = "Checkmate" THEN Ret(-SCORE_MATE + ply, st)
    ELSE IF board_status = "Stalemate" THEN Ret(0, st)
    ELSE IF depth = 0
    THEN QuiescenceNode(board, TickNode(st), mg, ply, alpha, beta)
    ELSE NegamaxProbed(board, st, mg, probe(st.tt, board.hash), depth, ply,
                       alpha, beta, can_null)

\* a node that looks for a repetition at the root as well
NegamaxNode_repetition_at_root(board, st, mg, board_status, depth, ply, alpha, beta, can_null) ==
    IF board_status = "Checkmate" THEN Ret(-SCORE_MATE + ply, st)
    ELSE IF board_status = "Stalemate" THEN Ret(0, st)
    ELSE IF board.hash \in Range(st.position_history)
    THEN Ret(0, st)
    ELSE IF depth = 0
    THEN QuiescenceNode(board, TickNode(st), mg, ply, alpha, beta)
    ELSE NegamaxProbed(board, st, mg, probe(st.tt, board.hash), depth, ply,
                       alpha, beta, can_null)

\* the terminal checks, the repetition check and the leaf
NegamaxNode(board, st, mg, board_status, depth, ply, alpha, beta, can_null) ==
    IF board_status = "Checkmate" THEN Ret(-SCORE_MATE + ply, st)
    ELSE IF board_status = "Stalemate" THEN Ret(0, st)
    ELSE IF ply > 0 /\ board.hash \in Range(st.position_history)
    THEN Ret(0, st)
    ELSE IF depth = 0
    THEN QuiescenceNode(board, TickNode(st), mg, ply, alpha, beta)
    ELSE NegamaxProbed(board, st, mg, probe(st.tt, board.hash), depth, ply,
                       alpha, beta, can_null)

\* board.status() over the generator of the node
NegamaxGenerated(board, st, mg, depth, ply, alpha, beta, can_null) ==
    NegamaxNode(board, st, mg, StatusOf(board, MoveGenNext(mg)[2] # NoMove),
                depth, ply, alpha, beta, can_null)

NegamaxTicked(board, st, depth, ply, alpha, beta, can_null) ==
    IF st.stop THEN Ret(0, st)
    ELSE NegamaxGenerated(board, st, new_legal(board), depth, ply, alpha,
                          beta, can_null)

negamax(board, st, depth, ply, alpha, beta, can_null) ==
    NegamaxTicked(board, is_stopped(CheckTimeEvery2048(TickNode(st))),
                  depth, ply, alpha, beta, can_null)


\* ------------------------------------------------------------------------
\* State
\* ------------------------------------------------------------------------

VARIABLES
    table,      \* a TranspositionTable
    tt_last,    \* the last call made on the table, with its arguments
    rt,         \* the score and ply of a mate-score round trip
    mg_board,   \* the Board a MoveGen was made for
    movegen,    \* the MoveGen: moves, consumed, index, mask
    yielded,    \* the moves next() returned, each with the mask of its pass
    drained,    \* the last next() returned None
    order_run,  \* a call of order_moves or order_captures: its arguments,
                \* the moves as the passes scored them, the list returned
    hash_board, \* a Board reached by make_move_new / null_move
    hash_walk,  \* the moves that led to it (NoMove for a null move)
    perft_run,  \* a perft call: the position, the root moves, the count
    search_run, \* the calls of search() on one SearchState
    ab_run,     \* a negamax call and the reference run on the same position
    uci,        \* run() of uci.rs: the main thread, the worker, the output
    line_run    \* run() of uci.rs line by line: what the parsers leave

ttVars == <<table, tt_last, rt>>
mgVars == <<mg_board, movegen, yielded, drained, order_run>>
hashVars == <<hash_board, hash_walk>>
perftVars == <<perft_run>>
searchVars == <<search_run>>
abVars == <<ab_run>>
uciVars == <<uci, line_run>>
engineVars == <<searchVars, abVars, uciVars>>
vars == <<ttVars, mgVars, hashVars, perftVars, engineVars>>

\* the variables of the parts that are not running
TTParked == table = <<>> /\ tt_last = <<>> /\ rt = <<>>
GeneratorParked ==
    mg_board = <<>> /\ movegen = <<>> /\ yielded = <<>> /\ drained = FALSE
OrderParked == order_run = <<>>
MGParked == GeneratorParked /\ OrderParked
HashParked == hash_board = <<>> /\ hash_walk = <<>>
PerftParked == perft_run = <<>>
SearchParked == search_run = <<>>
ABParked == ab_run = <<>>
ThreadsParked == uci = <<>>
LinesParked == line_run = <<>>
UciParked == ThreadsParked /\ LinesParked
EngineParked == SearchParked /\ ABParked /\ UciParked


\* ------------------------------------------------------------------------
\* The transposition table under arbitrary calls
\* ------------------------------------------------------------------------

\* keys 0, 1 and 1 + 2^40: the last two share a slot
TTKeys == {{}, {0}, {0, 40}}
\* what a store carries besides key and depth: the score and ply (a plain
\* score, mate scores of both signs at ply 0 and deeper), the bound and the
\* best move
TTPayloads ==
    {[score |-> 0, ply |-> 0, flag |-> "Exact", best_move |-> NoMove],
     [score |-> SCORE_MATE - 1, ply |-> 0, flag |-> "Exact",
      best_move |-> ChessMoveNew(12, 28, NoPiece)],
     [score |-> SCORE_MATE - 1, ply |-> 3, flag |-> "LowerBound",
      best_move |-> ChessMoveNew(12, 28, NoPiece)],
     [score |-> -SCORE_MATE + 1, ply |-> 3, flag |-> "UpperBound",
      best_move |-> NoMove]}
MaxTTDepth == 1
MaxGeneration == 1

InitTT ==
    /\ table = tt_new(1)
    /\ tt_last = [op |-> "new"]
    /\ rt = <<>>
    /\ MGParked /\ HashParked /\ PerftParked /\ EngineParked

TTStore(hash, depth, score, flag, best_move, ply) ==
    /\ table' = store(table, hash, depth, score, flag, best_move, ply)
    /\ tt_last' = [op |-> "store", hash |-> hash, depth |-> depth,
                   score |-> score, flag |-> flag, best_move |-> best_move,
                   ply |-> ply,
                   accepted |-> should_replace(table, hash, depth)]
    /\ UNCHANGED <<rt, mgVars, hashVars, perftVars, engineVars>>

TTProbe(hash) ==
    /\ tt_last' = [op |-> "probe", hash |-> hash, found |-> probe(table, hash)]
    /\ UNCHANGED <<table, rt, mgVars, hashVars, perftVars, engineVars>>

TTNewSearch ==
    /\ table.generation < MaxGeneration
    /\ table' = new_search(table)
    /\ tt_last' = [op |-> "new_search"]
    /\ UNCHANGED <<rt, mgVars, hashVars, perftVars, engineVars>>

TTClear ==
    /\ table' = clear(table)
    /\ tt_last' = [op |-> "clear"]
    /\ UNCHANGED <<rt, mgVars, hashVars, perftVars, engineVars>>

NextTT ==
    \/ \E hash \in TTKeys, depth \in 0 .. MaxTTDepth, p \in TTPayloads :
            TTStore(hash, depth, p.score, p.flag, p.best_move, p.ply)
    \/ \E hash \in TTKeys : TTProbe(hash)
    \/ TTNewSearch
    \/ TTClear

SpecTT == InitTT /\ [][NextTT]_vars

\* the score field store writes for (score, ply)
StoredScore(score, ply) ==
    IF score > SCORE_MATE - 100 THEN score + ply
    ELSE IF score < -SCORE_MATE + 100 THEN score - ply
    ELSE score

\* probe(h) returns the entry the last store wrote
ProbeReturnsStored ==
    LET found == probe(table, tt_last.hash)
    IN  /\ found # <<>>
        /\ found[1].key = tt_last.hash
        /\ found[1].depth = tt_last.depth
        /\ found[1].flag = tt_last.flag
        /\ found[1].best_move = tt_last.best_move
        /\ found[1].score = StoredScore(tt_last.score, tt_last.ply)

\* C8, as stated: after any store(h, ..), whatever the table held,
\* probe(h) returns an entry with key h and the depth, flag, best move and
\* mate-adjusted score just stored.
C8_StoreThenProbe_Any == tt_last.op = "store" => ProbeReturnsStored

\* C8, amended: after a store(h, ..) that the replacement test accepts
\* (slot key 0, or slot key h, or depth >= the slot's depth, or the slot's
\* age is not the current generation), probe(h) returns an entry with key h
\* and the depth, flag, best move and mate-adjusted score just stored.
C8_StoreThenProbe ==
    tt_last.op = "store" /\ tt_last.accepted => ProbeReturnsStored

\* an accepted store of a mate score at ply > 0 over another key's entry
C8_Witness ==
    /\ tt_last.op = "store"
    /\ tt_last.accepted
    /\ tt_last.hash = {0, 40}
    /\ tt_last.score > SCORE_MATE - 100
    /\ tt_last.ply > 0
    /\ tt_last.best_move # NoMove

\* C9: store overwrites the slot at hash & mask if and only if the slot's
\* key is 0, or equals the new key, or the new depth >= the stored depth, or
\* the stored age differs from the current generation; otherwise the table
\* is unchanged; and no store changes another slot or the generation.
C9_ReplacementPolicy ==
    [][tt_last'.op = "store" =>
        LET h == tt_last'.hash
            idx == h \cap table.mask
            old == EntryAt(table, idx)
            new == EntryAt(table', idx)
            accept == \/ old.key = {}
                      \/ old.key = h
                      \/ tt_last'.depth >= old.depth
                      \/ old.age # table.generation
        IN  /\ accept =>
                /\ new.key = h
                /\ new.depth = tt_last'.depth
                /\ new.flag = tt_last'.flag
                /\ new.best_move = tt_last'.best_move
                /\ new.score = StoredScore(tt_last'.score, tt_last'.ply)
                /\ new.age = table.generation
            /\ ~accept => table' = table
            /\ \A j \in (DOMAIN table.entries \cup DOMAIN table'.entries) \ {idx} :
                    EntryAt(table', j) = EntryAt(table, j)
            /\ table'.generation = table.generation
            /\ table'.mask = table.mask]_vars

\* a shallower store refused: the deeper same-generation entry of another
\* key is still in the slot
C9_Witness ==
    /\ tt_last.op = "store"
    /\ ~tt_last.accepted
    /\ tt_last.hash = {0, 40}
    /\ EntryAt(table, {0}).key = {0}
    /\ EntryAt(table, {0}).depth > tt_last.depth
    /\ EntryAt(table, {0}).age = table.generation

\* ------------------------------------------------------------------------
\* The mate-score round trip: one store into an empty slot, one
\* retrieve_score of the entry at the same ply
\* ------------------------------------------------------------------------

\* scores within MateMargin of a threshold of the adjustment
MateMargin == 130
MateScores ==
    {0} \cup (SCORE_MATE - 100 - MateMargin) .. SCORE_MATE
        \cup (-SCORE_MATE) .. (-SCORE_MATE + 100 + MateMargin)
MateWindow == {-SCORE_INFINITY, SCORE_INFINITY}

InitMate ==
    /\ table = tt_new(1)
    /\ tt_last = [op |-> "new"]
    /\ rt \in [score : MateScores, ply : 0 .. MAX_PLY]
    /\ MGParked /\ HashParked /\ PerftParked /\ EngineParked

MateStore ==
    /\ tt_last.op = "new"
    /\ table' = store(table, {0}, 0, rt.score, "Exact", NoMove, rt.ply)
    /\ tt_last' = [op |-> "store", hash |-> {0}, depth |-> 0,
                   score |-> rt.score, flag |-> "Exact", best_move |-> NoMove,
                   ply |-> rt.ply,
                   accepted |-> should_replace(table, {0}, 0)]
    /\ UNCHANGED <<rt, mgVars, hashVars, perftVars, engineVars>>

MateRetrieve(alpha, beta) ==
    /\ tt_last.op = "store"
    /\ tt_last' = [op |-> "retrieve_score", alpha |-> alpha, beta |-> beta,
                   out |-> retrieve_score(probe(table, {0})[1], rt.ply,
                                          alpha, beta)]
    /\ UNCHANGED <<table, rt, mgVars, hashVars, perftVars, engineVars>>

NextMate ==
    \/ MateStore
    \/ \E alpha \in MateWindow, beta \in MateWindow : MateRetrieve(alpha, beta)

SpecMate == InitMate /\ [][NextMate]_vars

\* C10: a score s, |s| <= SCORE_MATE, stored at ply p with bound Exact in a
\* slot that accepts it and read back by retrieve_score at the same ply p
\* comes back as s, whatever alpha and beta.
C10_MateRoundTrip ==
    tt_last.op = "retrieve_score" => tt_last.out = <<rt.score>>

\* a mate score MATE - k read back at the deepest ply
C10_Witness ==
    /\ tt_last.op = "retrieve_score"
    /\ rt.ply = MAX_PLY
    /\ rt.score = SCORE_MATE - 3
    /\ tt_last.out = <<SCORE_MATE - 3>>
    /\ EntryAt(table, {0}).score = SCORE_MATE - 3 + MAX_PLY

\* ------------------------------------------------------------------------
\* Positions, as the FEN strings the tests and the UCI front end parse
\* ------------------------------------------------------------------------

\* Board::default()
\* rnbqkbnr/pppppppp/8/8/8/8/PPPPPPPP/RNBQKBNR w KQkq - 0 1
StartFen ==
    [placement |-> <<"r", "n", "b", "q", "k", "b", "n", "r", "/", "p", "p",
    "p", "p", "p", "p", "p", "p", "/", "8", "/", "8", "/", "8", "/", "8",
    "/", "P", "P", "P", "P", "P", "P", "P", "P", "/", "R", "N", "B", "Q",
    "K", "B", "N", "R">>, side |-> <<"w">>, castling |-> <<"K", "Q", "k",
    "q">>, ep |-> <<"-">>, halfmove |-> 0]

\* r3k2r/p1ppqpb1/bn2pnp1/3PN3/1p2P3/2N2Q1p/PPPBBPPP/R3K2R w KQkq - 0 1
KiwipeteFen ==
    [placement |-> <<"r", "3", "k", "2", "r", "/", "p", "1", "p", "p", "q",
    "p", "b", "1", "/", "b", "n", "2", "p", "n", "p", "1", "/", "3", "P",
    "N", "3", "/", "1", "p", "2", "P", "3", "/", "2", "N", "2", "Q", "1",
    "p", "/", "P", "P", "P", "B", "B", "P", "P", "P", "/", "R", "3", "K",
    "2", "R">>, side |-> <<"w">>, castling |-> <<"K", "Q", "k", "q">>, ep
    |-> <<"-">>, halfmove |-> 0]

\* 8/2p5/3p4/KP5r/1R3p1k/8/4P1P1/8 w - - 0 1
Position3Fen ==
    [placement |-> <<"8", "/", "2", "p", "5", "/", "3", "p", "4", "/", "K",
    "P", "5", "r", "/", "1", "R", "3", "p", "1", "k", "/", "8", "/", "4",
    "P", "1", "P", "1", "/", "8">>, side |-> <<"w">>, castling |-> <<"-">>,
    ep |-> <<"-">>, halfmove |-> 0]

\* rnbqkbnr/ppp1pppp/8/3pP3/8/8/PPPP1PPP/RNBQKBNR w KQkq d6 0 1
EnPassantFen ==
    [placement |-> <<"r", "n", "b", "q", "k", "b", "n", "r", "/", "p", "p",
    "p", "1", "p", "p", "p", "p", "/", "8", "/", "3", "p", "P", "3", "/",
    "8", "/", "8", "/", "P", "P", "P", "P", "1", "P", "P", "P", "/", "R",
    "N", "B", "Q", "K", "B", "N", "R">>, side |-> <<"w">>, castling |->
    <<"K", "Q", "k", "q">>, ep |-> <<"d", "6">>, halfmove |-> 0]

\* n1n5/PPPk4/8/8/8/8/4Kppp/5N1N b - - 0 1
PromotionFen ==
    [placement |-> <<"n", "1", "n", "5", "/", "P", "P", "P", "k", "4", "/",
    "8", "/", "8", "/", "8", "/", "8", "/", "4", "K", "p", "p", "p", "/",
    "5", "N", "1", "N">>, side |-> <<"b">>, castling |-> <<"-">>, ep |->
    <<"-">>, halfmove |-> 0]

\* 8/8/8/3pP3/8/8/8/k6K w - d6 0 1
SmallEnPassantFen ==
    [placement |-> <<"8", "/", "8", "/", "8", "/", "3", "p", "P", "3", "/",
    "8", "/", "8", "/", "8", "/", "k", "6", "K">>, side |-> <<"w">>,
    castling |-> <<"-">>, ep |-> <<"d", "6">>, halfmove |-> 0]

\* 7k/P7/8/8/8/8/8/K7 w - - 0 1
SmallPromotionFen ==
    [placement |-> <<"7", "k", "/", "P", "7", "/", "8", "/", "8", "/", "8",
    "/", "8", "/", "8", "/", "K", "7">>, side |-> <<"w">>, castling |->
    <<"-">>, ep |-> <<"-">>, halfmove |-> 0]

\* 8/8/8/8/8/2p5/1P6/k6K w - - 0 1
SmallCaptureFen ==
    [placement |-> <<"8", "/", "8", "/", "8", "/", "8", "/", "8", "/", "2",
    "p", "5", "/", "1", "P", "6", "/", "k", "6", "K">>, side |-> <<"w">>,
    castling |-> <<"-">>, ep |-> <<"-">>, halfmove |-> 0]

\* ------------------------------------------------------------------------
\* MoveGen under arbitrary passes: set_iterator_mask and next in any order
\* ------------------------------------------------------------------------

MGFens == {SmallEnPassantFen, SmallPromotionFen, SmallCaptureFen}

\* the masks of the passes: all squares (!EMPTY), the enemy pieces and the
\* en-passant square (the masks order_moves uses), ranks 5 to 8, nothing
MGMasks(b) ==
    {Squares,
     b.colors[NotColor(b.side_to_move)],
     IF b.ep_square # NoSquare THEN {b.ep_square} ELSE EMPTY,
     32 .. 63}

InitMoveGen ==
    /\ mg_board \in {from_str(f) : f \in MGFens}
    /\ movegen = new_legal(mg_board)
    /\ yielded = <<>>
    /\ drained = FALSE
    /\ OrderParked
    /\ TTParked /\ HashParked /\ PerftParked /\ EngineParked

MGSetMask(mask) ==
    /\ movegen' = set_iterator_mask(movegen, mask)
    /\ drained' = FALSE
    /\ UNCHANGED <<mg_board, yielded, order_run, ttVars, hashVars, perftVars,
                   engineVars>>

MGPull ==
    LET r == MoveGenNext(movegen)
    IN  /\ movegen' = r[1]
        /\ yielded' = IF r[2] = NoMove THEN yielded
                      ELSE Append(yielded, [mv |-> r[2], mask |-> movegen.mask])
        /\ drained' = (r[2] = NoMove)
        /\ UNCHANGED <<mg_board, order_run, ttVars, hashVars, perftVars,
                       engineVars>>

NextMoveGen ==
    \/ \E mask \in MGMasks(mg_board) : MGSetMask(mask)
    \/ MGPull

SpecMoveGen == InitMoveGen /\ [][NextMoveGen]_vars

HashFens ==
    {StartFen, KiwipeteFen, Position3Fen, EnPassantFen, PromotionFen}
MaxWalk == 2

InitHash ==
    /\ hash_board \in {from_str(f) : f \in HashFens}
    /\ hash_walk = <<>>
    /\ TTParked /\ MGParked /\ PerftParked /\ EngineParked

HashMakeMove(mv) ==
    /\ hash_board' = make_move_new(hash_board, mv)
    /\ hash_walk' = Append(hash_walk, mv)
    /\ UNCHANGED <<ttVars, mgVars, perftVars, engineVars>>

HashNullMove ==
    /\ Len(hash_walk) < MaxWalk
    /\ null_move(hash_board) # [none |-> TRUE]
    /\ hash_board' = null_move(hash_board)
    /\ hash_walk' = Append(hash_walk, NoMove)
    /\ UNCHANGED <<ttVars, mgVars, perftVars, engineVars>>

NextHash ==
    \/ /\ Len(hash_walk) < MaxWalk
       /\ \E mv \in Range(LegalMoves(hash_board)) : HashMakeMove(mv)
    \/ HashNullMove

SpecHash == InitHash /\ [][NextHash]_vars

RECURSIVE perft(_, _)
RECURSIVE PerftMoves(_, _, _, _, _)
PerftMoves(b, moves, lo, hi, depth) ==
    IF lo > hi THEN 0
    ELSE IF lo = hi THEN perft(make_move_new(b, moves[lo]), depth - 1)
    ELSE PerftMoves(b, moves, lo, (lo + hi) \div 2, depth)
            + PerftMoves(b, moves, (lo + hi) \div 2 + 1, hi, depth)

PerftOver(b, moves, depth) == PerftMoves(b, moves, 1, Len(moves), depth)

perft(b, depth) ==
    IF depth = 0 THEN 1 ELSE PerftOver(b, LegalMoves(b), depth)

\* the perft tests: position, depth and the tabulated number
PerftTasks ==
    {[fen |-> StartFen, depth |-> 1, nodes |-> 20],
     [fen |-> StartFen, depth |-> 2, nodes |-> 400],
     [fen |-> StartFen, depth |-> 3, nodes |-> 8902],
     [fen |-> StartFen, depth |-> 4, nodes |-> 197281],
     [fen |-> KiwipeteFen, depth |-> 1, nodes |-> 48],
     [fen |-> KiwipeteFen, depth |-> 2, nodes |-> 2039],
     [fen |-> KiwipeteFen, depth |-> 3, nodes |-> 97862],
     [fen |-> Position3Fen, depth |-> 1, nodes |-> 14],
     [fen |-> Position3Fen, depth |-> 2, nodes |-> 191],
     [fen |-> Position3Fen, depth |-> 3, nodes |-> 2812]}

\* perft(board, depth) entered: the move generator is made, count = 0
PerftEnter(t, board) ==
    [task |-> t, board |-> board, moves |-> LegalMoves(board),
     i |-> 0, count |-> 0]

InitPerft ==
    /\ perft_run \in {PerftEnter(t, from_str(t.fen)) : t \in PerftTasks}
    /\ TTParked /\ MGParked /\ HashParked /\ EngineParked

\* one turn of the loop of the root call
PerftStep ==
    /\ perft_run.i < Len(perft_run.moves)
    /\ perft_run' =
        [perft_run EXCEPT
            !.i = @ + 1,
            !.count = @ + perft(make_move_new(perft_run.board,
                                              perft_run.moves[perft_run.i + 1]),
                                perft_run.task.depth - 1)]
    /\ UNCHANGED <<ttVars, mgVars, hashVars, engineVars>>

NextPerft == PerftStep

SpecPerft == InitPerft /\ [][NextPerft]_vars

\* C6: the leaf count is 20, 400, 8902, 197281 for the start position at
\* depths 1 to 4, 48, 2039, 97862 for Kiwipete at depths 1 to 3 and 14, 191,
\* 2812 for Position 3 at depths 1 to 3.
C6_PerftIdentity ==
    perft_run.i = Len(perft_run.moves) =>
        perft_run.count = perft_run.task.nodes

\* the start position at depth 4 is counted
C6_Witness ==
    /\ perft_run.task.fen = StartFen
    /\ perft_run.task.depth = 4
    /\ perft_run.i = Len(perft_run.moves)
    /\ perft_run.count = 197281

\* ------------------------------------------------------------------------
\* Iterative deepening: search() called on one SearchState, a second time
\* after reset() as test_tt_reduces_nodes does
\* ------------------------------------------------------------------------

MaxSearches == 2
MaxSearchDepth == 2
MaxStopAt == 12

\* White: Ka1, Pa2; Black: Kh8
FenKingPawn ==
    [placement |-> <<"7", "k", "/", "8", "/", "8", "/", "8", "/", "8", "/", "8", "/", "P", "7", "/", "K", "7">>,
     side |-> <<"w">>, castling |-> <<"-">>, ep |-> <<"-">>, halfmove |-> 0]
\* White: Ka1, in check from the pawn on b2; Black: Ka8
FenPawnCheck ==
    [placement |-> <<"k", "7", "/", "8", "/", "8", "/", "8", "/", "8", "/", "8", "/", "1", "p", "6", "/", "K", "7">>,
     side |-> <<"w">>, castling |-> <<"-">>, ep |-> <<"-">>, halfmove |-> 0]

SearchFens == {FenKingPawn, FenPawnCheck}

\* the locals of search() and the SearchState it is given
SearchEnter(fen, board) ==
    [board |-> board, fen |-> fen, state |-> SearchStateNew, pc |-> "idle",
     max_depth |-> 0, depth |-> 0, best_move |-> NoMove, best_score |-> 0,
     infos |-> 0, result |-> <<>>, searches |-> 0,
     completed |-> 0, completed_best |-> NoMove, interrupted |-> FALSE,
     partial |-> NoMove]

InitSearch ==
    /\ search_run \in {SearchEnter(fen, from_str(fen)) : fen \in SearchFens}
    /\ TTParked /\ MGParked /\ HashParked /\ PerftParked /\ ABParked
    /\ UciParked

\* the caller: state.reset() before every search but the first, then the
\* entry of search(); stop_at is when another holder of the flag sets it
SearchBegin(max_depth, stop_at) ==
    /\ search_run.pc \in {"idle", "done"}
    /\ search_run.searches < MaxSearches
    /\ search_run' =
        [search_run EXCEPT
            !.state = [(IF search_run.searches = 0 THEN @ ELSE reset(@))
                            EXCEPT !.stop_at = stop_at, !.loads = 0],
            !.pc = "loop", !.max_depth = max_depth, !.depth = 1,
            !.best_move = NoMove, !.best_score = -SCORE_INFINITY,
            !.infos = 0, !.result = <<>>,
            !.completed = 0, !.completed_best = NoMove,
            !.interrupted = FALSE, !.partial = NoMove]
    /\ UNCHANGED <<ttVars, mgVars, hashVars, perftVars, abVars, uciVars>>

\* the stop flag was found set after negamax returned
SearchInterrupted(run, st) ==
    [run EXCEPT
        !.state = st,
        !.best_move = IF @ = NoMove THEN st.root_best_move ELSE @,
        !.interrupted = TRUE, !.partial = st.root_best_move,
        !.pc = "return"]

\* the breaks at the end of the loop body and the end of the range
SearchLoopEnd(run) ==
    IF \/ /\ run.state.time_limit_ms > 0
          /\ run.state.ticks > run.state.time_limit_ms \div 2
       \/ run.best_score > SCORE_MATE - 100
       \/ -run.best_score > SCORE_MATE - 100
       \/ run.depth = run.max_depth
    THEN [run EXCEPT !.pc = "return"]
    ELSE [run EXCEPT !.depth = @ + 1]

\* the iteration completed: commit and print the info line
SearchCommitted(run, st, score) ==
    SearchLoopEnd(
        [run EXCEPT
            !.state = st,
            !.best_score = score,
            !.best_move = IF st.root_best_move # NoMove
                          THEN st.root_best_move ELSE @,
            !.completed_best = IF st.root_best_move # NoMove
                               THEN st.root_best_move ELSE run.best_move,
            !.completed = @ + 1,
            !.infos = @ + 1])

SearchChecked(run, st, score) ==
    IF st.stop THEN SearchInterrupted(run, st)
    ELSE SearchCommitted(run, st, score)

SearchIterated(run, r) == SearchChecked(run, is_stopped(r.st), r.score)

\* one turn of "for depth in 1..=max_depth"
SearchIterate ==
    /\ search_run.pc = "loop"
    /\ search_run' =
        SearchIterated(search_run,
            negamax(search_run.board,
                    [search_run.state EXCEPT !.nodes = 0,
                                             !.root_best_move = NoMove],
                    search_run.depth, 0, -SCORE_INFINITY, SCORE_INFINITY, TRUE))
    /\ UNCHANGED <<ttVars, mgVars, hashVars, perftVars, abVars, uciVars>>

\* SearchResult { best_move, score, depth: max_depth, nodes }
SearchReturn ==
    /\ search_run.pc = "return"
    /\ search_run' =
        [search_run EXCEPT
            !.result = [best_move |-> search_run.best_move,
                        score |-> search_run.best_score,
                        depth |-> search_run.max_depth,
                        nodes |-> search_run.state.nodes],
            !.searches = @ + 1,
            !.pc = "done"]
    /\ UNCHANGED <<ttVars, mgVars, hashVars, perftVars, abVars, uciVars>>

NextSearch ==
    \/ \E max_depth \in 1 .. MaxSearchDepth, stop_at \in 0 .. MaxStopAt :
            SearchBegin(max_depth, stop_at)
    \/ SearchIterate
    \/ SearchReturn

SpecSearch == InitSearch /\ [][NextSearch]_vars

\* C1: a search of a position with a legal move whose stop flag is never
\* set returns a best move that is present and legal in the root position,
\* also when it is the second search on the same SearchState after reset().
C1_ReturnsLegalMove ==
    (/\ search_run.pc = "done"
     /\ search_run.state.stop_at = 0
     /\ LegalMoves(search_run.board) # <<>>)
        => /\ search_run.result.best_move # NoMove
           /\ legal(search_run.board, search_run.result.best_move)

\* C3: when the stop flag is found set after the root negamax call and an
\* earlier iteration of this search completed, the search returns the best
\* move of the last completed iteration; when none completed it returns the
\* root_best_move of the interrupted iteration.
C3_InterruptedKeepsCompleted ==
    (search_run.pc = "done" /\ search_run.interrupted)
        => search_run.result.best_move =
                IF search_run.completed > 0 THEN search_run.completed_best
                ELSE search_run.partial

\* ------------------------------------------------------------------------
\* negamax against a reference negamax without pruning
\* ------------------------------------------------------------------------

RECURSIVE RefNegamax(_, _, _, _)
RECURSIVE RefMax(_, _, _, _, _, _, _)

\* the best of the moves lo..hi
RefMax(board, moves, lo, hi, history, depth, ply) ==
    IF lo = hi
    THEN -RefNegamax(make_move_new(board, moves[lo]), history, depth - 1,
                     ply + 1)
    ELSE MaxOf(RefMax(board, moves, lo, (lo + hi) \div 2, history, depth, ply),
               RefMax(board, moves, (lo + hi) \div 2 + 1, hi, history, depth,
                      ply))

\* the leaf: the quiescence search of the engine with the full window
RefLeaf(board, moves, history, ply) ==
    QuiescenceNode(board,
        TickNode([SearchStateNew EXCEPT !.position_history = history]),
        MoveGenOf(moves), ply, -SCORE_INFINITY, SCORE_INFINITY).score

RefNode(board, moves, history, depth, ply) ==
    IF moves = <<>>
    THEN (IF board.checkers # EMPTY THEN -SCORE_MATE + ply ELSE 0)
    ELSE IF ply > 0 /\ board.hash \in Range(history) THEN 0
    ELSE IF depth = 0 THEN RefLeaf(board, moves, history, ply)
    ELSE RefMax(board, moves, 1, Len(moves), Append(history, board.hash),
                depth, ply)

RefNegamax(board, history, depth, ply) ==
    RefNode(board, LegalMoves(board), history, depth, ply)

MaxABDepth == 3

\* White: Kb6, Rh1, Ph4; Black: Ka8, Ph5
FenRookMate ==
    [placement |-> <<"k", "7", "/", "8", "/", "1", "K", "6", "/", "7", "p", "/", "7", "P", "/", "8", "/", "8", "/", "7", "R">>,
     side |-> <<"w">>, castling |-> <<"-">>, ep |-> <<"-">>, halfmove |-> 0]
\* White: Kb4, Pd4; Black: Ke4, Pd5
FenTrebuchet ==
    [placement |-> <<"8", "/", "8", "/", "8", "/", "3", "p", "4", "/", "1", "K", "1", "P", "k", "3", "/", "8", "/", "8", "/", "8">>,
     side |-> <<"w">>, castling |-> <<"-">>, ep |-> <<"-">>, halfmove |-> 0]

ABFens == {FenRookMate, FenTrebuchet, FenKingPawn}

ABEnter(fen, board, depth) ==
    [board |-> board, fen |-> fen, depth |-> depth,
     moves |-> LegalMoves(board),
     engine |-> <<>>, ref_next |-> 1, ref_best |-> -SCORE_INFINITY]

InitAlphaBeta ==
    /\ ab_run \in {ABEnter(fen, from_str(fen), depth) :
                        fen \in ABFens, depth \in 1 .. MaxABDepth}
    /\ TTParked /\ MGParked /\ HashParked /\ PerftParked /\ SearchParked
    /\ UciParked

\* the engine: negamax with the full window on a new SearchState
ABEngine ==
    /\ ab_run.engine = <<>>
    /\ ab_run' =
        [ab_run EXCEPT !.engine =
            <<negamax(ab_run.board, SearchStateNew, ab_run.depth, 0,
                      -SCORE_INFINITY, SCORE_INFINITY, TRUE).score>>]
    /\ UNCHANGED <<ttVars, mgVars, hashVars, perftVars, searchVars, uciVars>>

\* the reference, one root move at a time
ABReference ==
    /\ ab_run.ref_next <= Len(ab_run.moves)
    /\ ab_run' =
        [ab_run EXCEPT
            !.ref_best =
                MaxOf(@, RefMax(ab_run.board, ab_run.moves, ab_run.ref_next,
                                ab_run.ref_next, <<ab_run.board.hash>>,
                                ab_run.depth, 0)),
            !.ref_next = @ + 1]
    /\ UNCHANGED <<ttVars, mgVars, hashVars, perftVars, searchVars, uciVars>>

NextAlphaBeta == ABEngine \/ ABReference

SpecAlphaBeta == InitAlphaBeta /\ [][NextAlphaBeta]_vars

ABBothDone ==
    /\ ab_run # <<>>
    /\ ab_run.engine # <<>>
    /\ ab_run.ref_next > Len(ab_run.moves)

\* C7 as stated: for depth <= 4 the score of the engine's negamax equals
\* the score of the reference negamax.
C7_EqualsReferenceDepth4 ==
    (ABBothDone /\ ab_run.depth <= 4) => ab_run.engine[1] = ab_run.ref_best

\* C7: for depth <= 2 the score returned by the engine's negamax, started
\* with the full window and an empty table, equals the score of a reference
\* negamax without pruning that uses the same evaluation and quiescence.
C7_EqualsReferenceDepth2 ==
    (ABBothDone /\ ab_run.depth <= 2) => ab_run.engine[1] = ab_run.ref_best

\* both searches of a depth-2 job are done, and a late quiet move is the
\* best one
C7_Witness ==
    /\ ABBothDone
    /\ ab_run.depth = 2
    /\ ab_run.fen = FenTrebuchet
    /\ ab_run.engine[1] = ab_run.ref_best
    /\ ab_run.ref_best > 0

\* ------------------------------------------------------------------------
\* uci.rs: run() reading commands on the main thread and the search worker
\* that `go` spawns.  Of the SearchState only its stop flag matters here;
\* the search of the worker is search() with what negamax does left open:
\* whether an iteration assigns a root move, whether the time check sets
\* the flag and whether the soft time limit or a mate score ends the loop.
\* The flags are the AtomicBools made so far: flags[1] is the one run()
\* makes, flags[2] the one SearchState::new makes, then one for every go.
\* ------------------------------------------------------------------------

MaxLines == 3
MaxUciDepth == 2

\* what a position line makes of the board ("none": it returns early) and
\* the budget a setoption line asks for
UciBoards == {"default", "other", "none"}
SmallHashMb == 1

UciCommands ==
    {"uci", "isready", "ucinewgame", "position", "go", "stop", "setoption",
     "quit", "d", "other"}

\* the table of a SearchState: its budget and whether a search stored in it
TTOfBudget(mb) == [mb |-> mb, filled |-> FALSE]

UciEnter ==
    [main |-> "read", cmd |-> "", go_params |-> <<>>, lines |-> 0,
     board |-> "default", position_history |-> 0,
     search_state |-> [stop |-> 2, tt |-> TTOfBudget(DEFAULT_HASH_MB)],
     stop_flag |-> 1,
     flags |-> <<FALSE, FALSE>>,
     search_thread |-> <<>>,
     goes |-> 0,
     out |-> <<>>]

InitUci ==
    /\ uci = UciEnter
    /\ TTParked /\ MGParked /\ HashParked /\ PerftParked
    /\ SearchParked /\ ABParked /\ LinesParked

Line(text, go) == [text |-> text, go |-> go]

\* the lines of the "uci" command
UciLines ==
    <<Line("id name", 0), Line("id author", 0), Line("option Hash", 0),
      Line("option SyzygyPath", 0), Line("uciok", 0)>>

\* the match arm of a command up to its wait_for_search (or to its end)
UciArm(u, cmd, go_params) ==
    IF cmd = "uci" THEN [u EXCEPT !.out = @ \o UciLines]
    ELSE IF cmd = "d" THEN [u EXCEPT !.out = Append(@, Line("board", 0))]
    ELSE IF cmd = "other" THEN u
    ELSE IF cmd \in {"stop", "quit"}
    THEN [u EXCEPT !.flags[u.stop_flag] = TRUE, !.main = "join",
                   !.cmd = cmd]
    ELSE [u EXCEPT !.main = "join", !.cmd = cmd, !.go_params = go_params]

\* the main thread reads a line
MainRead(cmd, go_params) ==
    /\ uci.main = "read"
    /\ uci.lines < MaxLines
    /\ uci' = UciArm([uci EXCEPT !.lines = @ + 1], cmd, go_params)
    /\ UNCHANGED <<ttVars, mgVars, hashVars, perftVars, searchVars, abVars,
                   line_run>>

\* the input ends: the loop over the lines is left
MainEof ==
    /\ uci.main = "read"
    /\ uci' = [uci EXCEPT !.main = "exited"]
    /\ UNCHANGED <<ttVars, mgVars, hashVars, perftVars, searchVars, abVars,
                   line_run>>

\* wait_for_search: the join returned the SearchState of the worker
Joined(u) ==
    IF u.search_thread = <<>> THEN u
    ELSE [u EXCEPT !.search_state = [stop |-> u.search_thread.stop,
                                     tt |-> u.search_thread.tt],
                   !.search_thread = <<>>]

\* a go that gives the search the flag stop_flag refers to
GoSpawn_shared_flag(u) ==
    [u EXCEPT
        !.search_state = <<>>,
        !.goes = @ + 1,
        !.search_thread =
            [go |-> u.goes + 1, stop |-> u.stop_flag, pc |-> "search",
             depth |-> 1, max_depth |-> u.go_params.depth,
             timed |-> u.go_params.timed, best_move |-> FALSE,
             tt |-> u.search_state.tt, board |-> u.board,
             position_history |-> u.position_history]]

\* the "go" arm after wait_for_search: reset() stores false in the flag
\* the state holds, then a new flag is made and the worker spawned with the
\* SearchState, a copy of the board and a clone of the position history
GoSpawn(u) ==
    [u EXCEPT
        !.flags = Append([@ EXCEPT ![u.search_state.stop] = FALSE], FALSE),
        !.stop_flag = Len(u.flags) + 1,
        !.search_state = <<>>,
        !.goes = @ + 1,
        !.search_thread =
            [go |-> u.goes + 1, stop |-> Len(u.flags) + 1, pc |-> "search",
             depth |-> 1, max_depth |-> u.go_params.depth,
             timed |-> u.go_params.timed, best_move |-> FALSE,
             tt |-> u.search_state.tt, board |-> u.board,
             position_history |-> u.position_history]]

\* the "go" arm: search_state.take().expect("search state missing")
GoTake(u) ==
    IF u.search_state = <<>> THEN [u EXCEPT !.main = "panicked"]
    ELSE [GoSpawn(u) EXCEPT !.main = "read"]

\* the "ucinewgame" arm after wait_for_search
NewGame(u) ==
    [u EXCEPT !.board = "default", !.position_history = 0,
              !.search_state =
                  IF @ = <<>> THEN @ ELSE [@ EXCEPT !.tt.filled = FALSE],
              !.main = "read"]

\* the "position" arm after wait_for_search: parse_position returns early
\* or sets the board and starts the history with its hash
SetPosition(u) ==
    IF u.go_params.board = "none" THEN [u EXCEPT !.main = "read"]
    ELSE [u EXCEPT !.board = u.go_params.board, !.position_history = 1,
                   !.main = "read"]

\* the "setoption" arm after wait_for_search: resize_tt on the state held
SetOption(u) ==
    [u EXCEPT !.search_state =
                  IF @ = <<>> THEN @
                  ELSE [@ EXCEPT !.tt = TTOfBudget(u.go_params.mb)],
              !.main = "read"]

\* the rest of a match arm after wait_for_search
UciArmJoined(u) ==
    IF u.cmd = "isready"
    THEN [u EXCEPT !.out = Append(@, Line("readyok", 0)), !.main = "read"]
    ELSE IF u.cmd = "go" THEN GoTake(u)
    ELSE IF u.cmd = "ucinewgame" THEN NewGame(u)
    ELSE IF u.cmd = "position" THEN SetPosition(u)
    ELSE IF u.cmd = "setoption" THEN SetOption(u)
    ELSE IF u.cmd = "quit" THEN [u EXCEPT !.main = "exited"]
    ELSE [u EXCEPT !.main = "read"]

\* a join that returns while the worker is still searching
JoinableAtOnce(search_thread) == TRUE

\* handle.join() returns: there is no thread, or it has returned
Joinable(search_thread) ==
    IF search_thread = <<>> THEN TRUE ELSE search_thread.pc = "exit"

\* the main thread leaves wait_for_search and finishes the match arm
MainJoin ==
    /\ uci.main = "join"
    /\ Joinable(uci.search_thread)
    /\ uci' = UciArmJoined(Joined(uci))
    /\ UNCHANGED <<ttVars, mgVars, hashVars, perftVars, searchVars, abVars,
                   line_run>>

\* the worker: one turn of the loop of search()
WorkerInterrupted(w, found) ==
    [w EXCEPT !.best_move = @ \/ found, !.pc = "info"]

\* a completed iteration has stored its nodes in the table
WorkerCompleted(w, found, break) ==
    [w EXCEPT !.best_move = @ \/ found, !.tt.filled = TRUE,
              !.pc = IF break \/ w.depth = w.max_depth THEN "info" ELSE @,
              !.depth = IF break \/ w.depth = w.max_depth THEN @ ELSE @ + 1]

WorkerTurn(u, w, stopped, found, break) ==
    IF stopped
    THEN [u EXCEPT !.flags[w.stop] = TRUE,
                   !.search_thread = WorkerInterrupted(w, found)]
    ELSE [u EXCEPT !.out = Append(@, Line("info depth", w.go)),
                   !.search_thread = WorkerCompleted(w, found, break)]

WorkerIterate(time_up, found, break) ==
    /\ uci.search_thread # <<>>
    /\ uci.search_thread.pc = "search"
    /\ time_up => uci.search_thread.timed
    /\ uci' = WorkerTurn(uci, uci.search_thread,
                         uci.flags[uci.search_thread.stop] \/ time_up,
                         found, break)
    /\ UNCHANGED <<ttVars, mgVars, hashVars, perftVars, searchVars, abVars,
                   line_run>>

\* the worker prints the last info line
WorkerInfo ==
    /\ uci.search_thread # <<>>
    /\ uci.search_thread.pc = "info"
    /\ uci' = [uci EXCEPT
                !.out = Append(@, Line("info", uci.search_thread.go)),
                !.search_thread.pc = "bestmove"]
    /\ UNCHANGED <<ttVars, mgVars, hashVars, perftVars, searchVars, abVars,
                   line_run>>

\* a worker that prints bestmove only when the result holds a move
BestmoveLinesOnlyMove(go, best_move) ==
    IF best_move THEN <<Line("bestmove", go)>> ELSE <<>>

\* bestmove m, or bestmove 0000
BestmoveLines(go, best_move) ==
    IF best_move THEN <<Line("bestmove", go)>>
    ELSE <<Line("bestmove 0000", go)>>

\* the worker prints bestmove and returns the SearchState
WorkerBestmove ==
    /\ uci.search_thread # <<>>
    /\ uci.search_thread.pc = "bestmove"
    /\ uci' = [uci EXCEPT
                !.out = @ \o BestmoveLines(uci.search_thread.go,
                                           uci.search_thread.best_move),
                !.search_thread.pc = "exit"]
    /\ UNCHANGED <<ttVars, mgVars, hashVars, perftVars, searchVars, abVars,
                   line_run>>

Worker ==
    \/ \E time_up, found, break \in BOOLEAN :
            WorkerIterate(time_up, found, break)
    \/ WorkerInfo
    \/ WorkerBestmove

NextUci ==
    \/ \E cmd \in UciCommands \ {"go", "position", "setoption"} :
            MainRead(cmd, <<>>)
    \/ \E board \in UciBoards : MainRead("position", [board |-> board])
    \/ MainRead("setoption", [mb |-> SmallHashMb])
    \/ \E depth \in 1 .. MaxUciDepth, timed \in BOOLEAN :
            MainRead("go", [depth |-> depth, timed |-> timed])
    \/ MainEof
    \/ MainJoin
    \/ Worker

\* the worker thread keeps running; the main thread returns from a join that
\* can return
SpecUci ==
    InitUci /\ [][NextUci]_vars /\ WF_vars(Worker) /\ WF_vars(MainJoin)

IsBestmove(line) == line.text \in {"bestmove", "bestmove 0000"}
IsInfo(line) == line.text \in {"info depth", "info"}

BestmovesOf(out, go) ==
    {i \in DOMAIN out : IsBestmove(out[i]) /\ out[i].go = go}

\* the output so far is in order for every go
OutputInOrder(out) ==
    \A i \in DOMAIN out :
        IsBestmove(out[i]) =>
            /\ BestmovesOf(out, out[i].go) = {i}
            /\ \A j \in DOMAIN out :
                /\ (IsInfo(out[j]) /\ out[j].go = out[i].go) => j < i
                /\ out[j].go > out[i].go => j > i

MaxMb == 128

InitTTNew ==
    /\ table = <<>>
    /\ tt_last = [op |-> "none"]
    /\ rt = <<>>
    /\ MGParked /\ HashParked /\ PerftParked /\ EngineParked

\* SearchState::new and resize_tt: self.tt = TranspositionTable::new(mb)
TTNew(mb) ==
    /\ table' = tt_new(mb)
    /\ tt_last' = [op |-> "new", mb |-> mb]
    /\ UNCHANGED <<rt, mgVars, hashVars, perftVars, engineVars>>

NextTTNew == \E mb \in 1 .. MaxMb : TTNew(mb)

SpecTTNew == InitTTNew /\ [][NextTTNew]_vars

\* the number of entries of a table: mask + 1, mask being a run of low bits
TableSize(tt) == 2 ^ Cardinality(tt.mask)

\* the largest power of two that does not exceed n (n >= 1)
LargestPowerOfTwoUpTo(n) ==
    2 ^ (CHOOSE k \in 0 .. 30 : 2 ^ k <= n /\ n \div 2 < 2 ^ k)

\* C11: new(mb) allocates the largest power of two that does not exceed
\* floor(mb * 2^20 / entry_size) entries, or 1024 when that is smaller.
C11_SizeRoundedDown ==
    tt_last.op = "new" =>
        TableSize(table) =
            MaxOf(LargestPowerOfTwoUpTo((tt_last.mb * 1024 * 1024) \div TTEntrySize),
                  1024)

\* ------------------------------------------------------------------------
\* Ownership of the SearchState between the main thread and the worker
\* ------------------------------------------------------------------------

\* the worker is still searching or printing
Running(u) ==
    IF u.search_thread = <<>> THEN FALSE ELSE u.search_thread.pc # "exit"

\* the table of the SearchState, wherever the state is
TableHeld(u) ==
    IF u.search_state # <<>> THEN u.search_state.tt
    ELSE IF u.search_thread # <<>> THEN u.search_thread.tt
    ELSE <<>>

\* the step cleared or replaced the table, or changed the board or the
\* position history of the main thread
MainChanged(u, v) ==
    \/ v.board # u.board
    \/ v.position_history # u.position_history
    \/ TableHeld(v) = <<>>
    \/ TableHeld(u) = <<>>
    \/ TableHeld(v).mb # TableHeld(u).mb
    \/ (TableHeld(u).filled /\ ~TableHeld(v).filled)

\* C12: in every state exactly one of these holds: a worker thread is
\* outstanding, or the main thread holds the SearchState; the table is
\* cleared or replaced and the board and the position history are changed
\* only while no search is running, and go never finds the SearchState
\* missing.
C12_StateOwnedByOne ==
    /\ [](uci # <<>> =>
            /\ (uci.search_thread # <<>>) # (uci.search_state # <<>>)
            /\ uci.main # "panicked")
    /\ [][(uci # <<>> /\ uci' # <<>> /\ MainChanged(uci, uci'))
            => ~Running(uci)]_vars

\* a search filled the table and printed its bestmove, then setoption
\* replaced the table of the state the join gave back
C12_Witness ==
    /\ uci # <<>>
    /\ uci.main = "read" /\ uci.cmd = "setoption"
    /\ uci.board = "other"
    /\ uci.search_thread = <<>>
    /\ uci.search_state # <<>>
    /\ uci.search_state.tt = TTOfBudget(SmallHashMb)
    /\ \E i, j \in DOMAIN uci.out :
        /\ i < j
        /\ uci.out[i] = Line("info depth", 1)
        /\ uci.out[j] = Line("bestmove", 1)

\* ------------------------------------------------------------------------
\* The command loop behind its input: lines are sent to standard input at
\* any time and read by the main thread when it gets back to its loop.  A
\* line remembers the search that was running when it was sent (0: none).
\* ------------------------------------------------------------------------

InitStdin ==
    /\ uci = [f \in DOMAIN UciEnter \cup {"stdin"} |->
                IF f = "stdin" THEN <<>> ELSE UciEnter[f]]
    /\ TTParked /\ MGParked /\ HashParked /\ PerftParked
    /\ SearchParked /\ ABParked /\ LinesParked

SearchRunning(u) == IF Running(u) THEN u.search_thread.go ELSE 0

\* a line is written to the engine's standard input
StdinSend(cmd, go_params) ==
    /\ uci.main # "exited"
    /\ uci.lines + Len(uci.stdin) < MaxLines
    /\ uci' = [uci EXCEPT !.stdin =
                  Append(@, [cmd |-> cmd, go_params |-> go_params,
                             during |-> SearchRunning(uci)])]
    /\ UNCHANGED <<ttVars, mgVars, hashVars, perftVars, searchVars, abVars,
                   line_run>>

\* the loop over stdin.lock().lines() takes the next line
StdinRead ==
    /\ uci.main = "read"
    /\ uci.stdin # <<>>
    /\ uci' = UciArm([uci EXCEPT !.lines = @ + 1, !.stdin = Tail(@)],
                     Head(uci.stdin).cmd, Head(uci.stdin).go_params)
    /\ UNCHANGED <<ttVars, mgVars, hashVars, perftVars, searchVars, abVars,
                   line_run>>

NextStdin ==
    \/ \E cmd \in UciCommands \ {"go", "position", "setoption"} :
            StdinSend(cmd, <<>>)
    \/ \E depth \in 1 .. MaxUciDepth, timed \in BOOLEAN :
            StdinSend("go", [depth |-> depth, timed |-> timed])
    \/ StdinSend("position", [board |-> "other"])
    \/ StdinSend("setoption", [mb |-> SmallHashMb])
    \/ StdinRead
    \/ MainJoin
    \/ Worker

SpecStdin ==
    InitStdin /\ [][NextStdin]_vars /\ WF_vars(Worker) /\ WF_vars(MainJoin)
        /\ WF_vars(StdinRead)

\* the main thread waits in wait_for_search for a running search, in the
\* arm of a command that has not set the stop flag
HeldByJoin(u) ==
    /\ u.main = "join"
    /\ u.cmd \notin {"stop", "quit"}
    /\ Running(u)

\* C13: while a search is running the main thread keeps reading and
\* processing commands, so a stop line sent during a search sets that
\* search's stop flag while the search is still running, whatever was sent
\* before it during the same search: while such a line is unread and its
\* search still running, the main thread is not waiting for the search to
\* end.
C13_StopReachesRunningSearch ==
    (uci # <<>> /\ "stdin" \in DOMAIN uci) =>
        \A i \in DOMAIN uci.stdin :
            (/\ uci.stdin[i].cmd = "stop"
             /\ uci.stdin[i].during > 0
             /\ uci.stdin[i].during = SearchRunning(uci))
                => ~HeldByJoin(uci)

\* ------------------------------------------------------------------------
\* uci.rs: the parsers.  A line is the sequence of its tokens and a token
\* the sequence of its characters; None is -1 for a number and NoMove for a
\* move.  Numbers in the lines stay below MaxNumber.
\* ------------------------------------------------------------------------

\* the words the command loop and the parsers compare tokens with
TOKEN ==
    [position |-> <<"p", "o", "s", "i", "t", "i", "o", "n">>,
     startpos |-> <<"s", "t", "a", "r", "t", "p", "o", "s">>,
     fen |-> <<"f", "e", "n">>,
     moves |-> <<"m", "o", "v", "e", "s">>,
     setoption |-> <<"s", "e", "t", "o", "p", "t", "i", "o", "n">>,
     name |-> <<"n", "a", "m", "e">>,
     value |-> <<"v", "a", "l", "u", "e">>,
     go |-> <<"g", "o">>,
     depth |-> <<"d", "e", "p", "t", "h">>,
     movetime |-> <<"m", "o", "v", "e", "t", "i", "m", "e">>,
     wtime |-> <<"w", "t", "i", "m", "e">>,
     btime |-> <<"b", "t", "i", "m", "e">>,
     winc |-> <<"w", "i", "n", "c">>,
     binc |-> <<"b", "i", "n", "c">>,
     movestogo |-> <<"m", "o", "v", "e", "s", "t", "o", "g", "o">>,
     infinite |-> <<"i", "n", "f", "i", "n", "i", "t", "e">>,
     hash |-> <<"h", "a", "s", "h">>,
     syzygypath |-> <<"s", "y", "z", "y", "g", "y", "p", "a", "t", "h">>,
     empty |-> <<"<", "e", "m", "p", "t", "y", ">">>]

\* str::to_lowercase on ASCII
LowerOf(ch) ==
    CASE ch = "A" -> "a"
      [] ch = "B" -> "b"
      [] ch = "C" -> "c"
      [] ch = "D" -> "d"
      [] ch = "E" -> "e"
      [] ch = "F" -> "f"
      [] ch = "G" -> "g"
      [] ch = "H" -> "h"
      [] ch = "I" -> "i"
      [] ch = "J" -> "j"
      [] ch = "K" -> "k"
      [] ch = "L" -> "l"
      [] ch = "M" -> "m"
      [] ch = "N" -> "n"
      [] ch = "O" -> "o"
      [] ch = "P" -> "p"
      [] ch = "Q" -> "q"
      [] ch = "R" -> "r"
      [] ch = "S" -> "s"
      [] ch = "T" -> "t"
      [] ch = "U" -> "u"
      [] ch = "V" -> "v"
      [] ch = "W" -> "w"
      [] ch = "X" -> "x"
      [] ch = "Y" -> "y"
      [] ch = "Z" -> "z"
      [] OTHER -> ch

to_lowercase(chars) == [i \in DOMAIN chars |-> LowerOf(chars[i])]

\* the digits lo..hi of a token as a number, -1 when one is not a digit
RECURSIVE DecimalValue(_, _, _, _)
DecimalValue(acc, chars, lo, hi) ==
    IF acc < 0 \/ lo > hi THEN acc
    ELSE IF DigitValue(chars[lo]) < 0 THEN -1
    ELSE DecimalValue(acc * 10 + DigitValue(chars[lo]), chars, lo + 1, hi)

MaxNumber == 999999

\* str::parse for u8, u64 and usize (a leading + is accepted): Err is -1
ParseUnsigned(chars, max) ==
    IF chars = <<>> \/ chars = <<"+">> \/ Len(chars) > 6 THEN -1
    ELSE IF DecimalValue(0, chars, IF chars[1] = "+" THEN 2 ELSE 1,
                         Len(chars)) > max
    THEN -1
    ELSE DecimalValue(0, chars, IF chars[1] = "+" THEN 2 ELSE 1, Len(chars))

\* [&str]::join(" ")
RECURSIVE JoinTokens(_)
JoinTokens(tokens) ==
    IF tokens = <<>> THEN <<>>
    ELSE IF Len(tokens) = 1 THEN tokens[1]
    ELSE tokens[1] \o <<" ">> \o JoinTokens(Tail(tokens))

\* Iterator::position, counted from 1; None is 0
PositionOf(tokens, word) ==
    IF \A i \in DOMAIN tokens : tokens[i] # word THEN 0
    ELSE CHOOSE i \in DOMAIN tokens :
            /\ tokens[i] = word
            /\ \A j \in 1 .. i - 1 : tokens[j] # word

\* parse_uci_move
MoveOfSquares(board, mv) == IF legal(board, mv) THEN mv ELSE NoMove

PromotionOfChar(ch) ==
    CASE ch = "q" -> Queen [] ch = "r" -> Rook [] ch = "b" -> Bishop
      [] ch = "n" -> Knight [] OTHER -> NoPiece

RankOfChar(ch) == IF DigitValue(ch) \in 1 .. 8 THEN DigitValue(ch) - 1 ELSE 8

parse_uci_move(board, move_str) ==
    IF Len(move_str) < 4 THEN NoMove
    ELSE IF \/ FileOfChar(move_str[1]) >= 8 \/ RankOfChar(move_str[2]) >= 8
            \/ FileOfChar(move_str[3]) >= 8 \/ RankOfChar(move_str[4]) >= 8
    THEN NoMove
    ELSE MoveOfSquares(board,
            ChessMoveNew(
                make_square(RankOfChar(move_str[2]), FileOfChar(move_str[1])),
                make_square(RankOfChar(move_str[4]), FileOfChar(move_str[3])),
                IF Len(move_str) >= 5 THEN PromotionOfChar(move_str[5])
                ELSE NoPiece))

\* parse_position works on [board, history, skipped, returned]: skipped
\* counts the move tokens for which parse_uci_move gave None, returned
\* tells that the function returned before it changed anything
PositionPlayed(pos, new_board) ==
    [pos EXCEPT !.board = new_board,
                !.history = Append(@, new_board.hash)]

PositionMove(pos, m) ==
    IF m = NoMove THEN [pos EXCEPT !.skipped = @ + 1]
    ELSE PositionPlayed(pos, make_move_new(pos.board, m))

\* for &move_str in &tokens[idx..]
RECURSIVE PositionMoves(_, _, _)
PositionMoves(pos, tokens, idx) ==
    IF pos.skipped < 0 \/ idx > Len(tokens) THEN pos
    ELSE PositionMoves(
            PositionMove(pos, parse_uci_move(pos.board, tokens[idx])),
            tokens, idx + 1)

\* history.clear(); history.push(board.get_hash()); then the moves
PositionSet(pos, new_board, tokens, idx) ==
    IF idx <= Len(tokens) /\ tokens[idx] = TOKEN.moves
    THEN PositionMoves([pos EXCEPT !.board = new_board,
                                   !.history = <<new_board.hash>>],
                       tokens, idx + 1)
    ELSE [pos EXCEPT !.board = new_board, !.history = <<new_board.hash>>]

\* the end of the loop that collects the FEN fields
RECURSIVE FenPartsEnd(_, _, _)
FenPartsEnd(tokens, idx, n) ==
    IF idx <= Len(tokens) /\ tokens[idx] # TOKEN.moves /\ n < 6
    THEN FenPartsEnd(tokens, idx + 1, n + 1)
    ELSE idx

\* the fields of fen_parts.join(" ") as from_str splits them
FenOfParts(parts) ==
    [placement |-> parts[1], side |-> parts[2], castling |-> parts[3],
     ep |-> parts[4],
     halfmove |-> IF Len(parts) > 4 /\ ParseUnsigned(parts[5], 255) >= 0
                  THEN ParseUnsigned(parts[5], 255) ELSE 0]

PositionParsed(pos, parsed, tokens, idx) ==
    IF "err" \in DOMAIN parsed THEN [pos EXCEPT !.returned = TRUE]
    ELSE PositionSet(pos, parsed, tokens, idx)

PositionFen(pos, tokens, idx) ==
    IF idx - 3 >= 4
    THEN PositionParsed(pos, from_str(FenOfParts(SubSeq(tokens, 3, idx - 1))),
                        tokens, idx)
    ELSE [pos EXCEPT !.returned = TRUE]

parse_position(tokens, board, history) ==
    IF Len(tokens) < 2
    THEN [board |-> board, history |-> history, skipped |-> 0,
          returned |-> TRUE]
    ELSE IF tokens[2] = TOKEN.startpos
    THEN PositionSet([board |-> board, history |-> history, skipped |-> 0,
                      returned |-> FALSE],
                     from_str(StartFen), tokens, 3)
    ELSE IF tokens[2] = TOKEN.fen
    THEN PositionFen([board |-> board, history |-> history, skipped |-> 0,
                      returned |-> FALSE],
                     tokens, FenPartsEnd(tokens, 3, 0))
    ELSE [board |-> board, history |-> history, skipped |-> 0,
          returned |-> TRUE]


\* Board::default()
BoardDefault == from_str(StartFen)

\* parse_go: GoParams::new() and the loop over the tokens
GoParamsNew ==
    [depth |-> -1, movetime |-> -1, wtime |-> -1, btime |-> -1,
     winc |-> -1, binc |-> -1, movestogo |-> -1, infinite |-> FALSE]

\* the field a keyword of the go line sets, "" when it sets none
GoField(token) ==
    CASE token = TOKEN.depth -> "depth"
      [] token = TOKEN.movetime -> "movetime"
      [] token = TOKEN.wtime -> "wtime"
      [] token = TOKEN.btime -> "btime"
      [] token = TOKEN.winc -> "winc"
      [] token = TOKEN.binc -> "binc"
      [] token = TOKEN.movestogo -> "movestogo"
      [] OTHER -> ""

\* i += 1; if i < tokens.len() { params.field = tokens[i].parse().ok() }
GoArgument(params, field, tokens, i) ==
    IF i > Len(tokens) THEN params
    ELSE [params EXCEPT ![field] =
            ParseUnsigned(tokens[i],
                          IF field = "depth" THEN 255 ELSE MaxNumber)]

RECURSIVE GoTokens(_, _, _)
GoTokens(params, tokens, i) ==
    IF params.depth < -1 \/ i > Len(tokens) THEN params
    ELSE IF tokens[i] = TOKEN.infinite
    THEN GoTokens([params EXCEPT !.infinite = TRUE], tokens, i + 1)
    ELSE IF GoField(tokens[i]) # ""
    THEN GoTokens(GoArgument(params, GoField(tokens[i]), tokens, i + 1),
                  tokens, i + 2)
    ELSE GoTokens(params, tokens, i + 1)

parse_go(tokens) == GoTokens(GoParamsNew, tokens, 2)

unwrap_or(option, default) == IF option < 0 THEN default ELSE option

MinOf(a, b) == IF a < b THEN a ELSE b

\* GoParams::compute_time_ms after infinite and movetime
TimeOfClock(my_time, my_inc, moves_left) ==
    IF my_time = 0 THEN 0
    ELSE MinOf(my_time \div MaxOf(moves_left, 1) + (my_inc * 3) \div 4,
               (my_time * 4) \div 5)

compute_time_ms(params, side) ==
    IF params.infinite THEN 0
    ELSE IF params.movetime >= 0 THEN params.movetime
    ELSE IF side = White
    THEN TimeOfClock(unwrap_or(params.wtime, 0), unwrap_or(params.winc, 0),
                     unwrap_or(params.movestogo, 30))
    ELSE TimeOfClock(unwrap_or(params.btime, 0), unwrap_or(params.binc, 0),
                     unwrap_or(params.movestogo, 30))

\* parse_setoption works on the configuration [hash_mb, syzygy_path,
\* panicked]; the table of the SearchState has hash_mb megabytes.
\* tokens[ni + 1..vi] panics when the slice starts after its end.
clamp(n, lo, hi) == IF n < lo THEN lo ELSE IF n > hi THEN hi ELSE n

SetHash(config, mb) ==
    IF mb < 0 THEN config ELSE [config EXCEPT !.hash_mb = clamp(mb, 1, 4096)]

SetSyzygyPath(config, value) ==
    [config EXCEPT !.syzygy_path =
        IF value = <<>> \/ value = TOKEN.empty THEN <<>> ELSE value]

SetNamed(config, name, value) ==
    IF to_lowercase(name) = TOKEN.hash
    THEN SetHash(config, ParseUnsigned(value, MaxNumber))
    ELSE IF to_lowercase(name) = TOKEN.syzygypath
    THEN SetSyzygyPath(config, value)
    ELSE config

SetSliced(config, tokens, ni, vi) ==
    IF ni > vi THEN [config EXCEPT !.panicked = TRUE]
    ELSE SetNamed(config, JoinTokens(SubSeq(tokens, ni + 1, vi - 1)),
                  JoinTokens(SubSeq(tokens, vi + 1, Len(tokens))))

parse_setoption(tokens, config) ==
    IF PositionOf(tokens, TOKEN.name) = 0 \/ PositionOf(tokens, TOKEN.value) = 0
    THEN config
    ELSE SetSliced(config, tokens, PositionOf(tokens, TOKEN.name),
                   PositionOf(tokens, TOKEN.value))


\* ------------------------------------------------------------------------
\* The command loop line by line: every line is handled by its match arm,
\* the searches left out.  last keeps the line, the board and the history
\* before it, and whether parse_position returned early or passed over a
\* move token.
\* ------------------------------------------------------------------------

MaxCommandLines == 2

LineInputs ==
    {\* position startpos
     <<<<"p", "o", "s", "i", "t", "i", "o", "n">>, <<"s", "t", "a", "r", "t", "p", "o", "s">>>>,
     \* position startpos moves e2e4
     <<<<"p", "o", "s", "i", "t", "i", "o", "n">>, <<"s", "t", "a", "r", "t", "p", "o", "s">>, <<"m", "o", "v", "e", "s">>, <<"e", "2", "e", "4">>>>,
     \* position startpos moves e2e5 e2e4
     <<<<"p", "o", "s", "i", "t", "i", "o", "n">>, <<"s", "t", "a", "r", "t", "p", "o", "s">>, <<"m", "o", "v", "e", "s">>, <<"e", "2", "e", "5">>, <<"e", "2", "e", "4">>>>,
     \* position startpos moves e2e4 e7
     <<<<"p", "o", "s", "i", "t", "i", "o", "n">>, <<"s", "t", "a", "r", "t", "p", "o", "s">>, <<"m", "o", "v", "e", "s">>, <<"e", "2", "e", "4">>, <<"e", "7">>>>,
     \* position fen 7k/8/8/8/8/8/P7/K7 w - - 0 1
     <<<<"p", "o", "s", "i", "t", "i", "o", "n">>, <<"f", "e", "n">>, <<"7", "k", "/", "8", "/", "8", "/", "8", "/", "8", "/", "8", "/", "P", "7", "/", "K", "7">>, <<"w">>, <<"-">>, <<"-">>, <<"0">>, <<"1">>>>,
     \* position fen 7k/8/8/8/8/8/P7/K7 w - - 0 1 moves a2a4
     <<<<"p", "o", "s", "i", "t", "i", "o", "n">>, <<"f", "e", "n">>, <<"7", "k", "/", "8", "/", "8", "/", "8", "/", "8", "/", "8", "/", "P", "7", "/", "K", "7">>, <<"w">>, <<"-">>, <<"-">>, <<"0">>, <<"1">>, <<"m", "o", "v", "e", "s">>, <<"a", "2", "a", "4">>>>,
     \* position fen 7k/8/8/8/8/8/X7/K7 w - - 0 1
     <<<<"p", "o", "s", "i", "t", "i", "o", "n">>, <<"f", "e", "n">>, <<"7", "k", "/", "8", "/", "8", "/", "8", "/", "8", "/", "8", "/", "X", "7", "/", "K", "7">>, <<"w">>, <<"-">>, <<"-">>, <<"0">>, <<"1">>>>,
     \* position fen 7k/8/8/8/8/8/P7/K7 w -
     <<<<"p", "o", "s", "i", "t", "i", "o", "n">>, <<"f", "e", "n">>, <<"7", "k", "/", "8", "/", "8", "/", "8", "/", "8", "/", "8", "/", "P", "7", "/", "K", "7">>, <<"w">>, <<"-">>>>,
     \* position
     <<<<"p", "o", "s", "i", "t", "i", "o", "n">>>>,
     \* position here
     <<<<"p", "o", "s", "i", "t", "i", "o", "n">>, <<"h", "e", "r", "e">>>>,
     \* setoption name Hash value 16
     <<<<"s", "e", "t", "o", "p", "t", "i", "o", "n">>, <<"n", "a", "m", "e">>, <<"H", "a", "s", "h">>, <<"v", "a", "l", "u", "e">>, <<"1", "6">>>>,
     \* setoption name hash value 9000
     <<<<"s", "e", "t", "o", "p", "t", "i", "o", "n">>, <<"n", "a", "m", "e">>, <<"h", "a", "s", "h">>, <<"v", "a", "l", "u", "e">>, <<"9", "0", "0", "0">>>>,
     \* setoption name Hash value x
     <<<<"s", "e", "t", "o", "p", "t", "i", "o", "n">>, <<"n", "a", "m", "e">>, <<"H", "a", "s", "h">>, <<"v", "a", "l", "u", "e">>, <<"x">>>>,
     \* setoption name Hash
     <<<<"s", "e", "t", "o", "p", "t", "i", "o", "n">>, <<"n", "a", "m", "e">>, <<"H", "a", "s", "h">>>>,
     \* setoption value 16 name Hash
     <<<<"s", "e", "t", "o", "p", "t", "i", "o", "n">>, <<"v", "a", "l", "u", "e">>, <<"1", "6">>, <<"n", "a", "m", "e">>, <<"H", "a", "s", "h">>>>,
     \* setoption name SyzygyPath value <empty>
     <<<<"s", "e", "t", "o", "p", "t", "i", "o", "n">>, <<"n", "a", "m", "e">>, <<"S", "y", "z", "y", "g", "y", "P", "a", "t", "h">>, <<"v", "a", "l", "u", "e">>, <<"<", "e", "m", "p", "t", "y", ">">>>>,
     \* go depth 3
     <<<<"g", "o">>, <<"d", "e", "p", "t", "h">>, <<"3">>>>,
     \* go depth
     <<<<"g", "o">>, <<"d", "e", "p", "t", "h">>>>,
     \* go depth x
     <<<<"g", "o">>, <<"d", "e", "p", "t", "h">>, <<"x">>>>,
     \* go depth 300
     <<<<"g", "o">>, <<"d", "e", "p", "t", "h">>, <<"3", "0", "0">>>>,
     \* go wtime 1000 winc 100 movestogo 0
     <<<<"g", "o">>, <<"w", "t", "i", "m", "e">>, <<"1", "0", "0", "0">>, <<"w", "i", "n", "c">>, <<"1", "0", "0">>, <<"m", "o", "v", "e", "s", "t", "o", "g", "o">>, <<"0">>>>,
     \* go btime 600 binc 8
     <<<<"g", "o">>, <<"b", "t", "i", "m", "e">>, <<"6", "0", "0">>, <<"b", "i", "n", "c">>, <<"8">>>>,
     \* go infinite
     <<<<"g", "o">>, <<"i", "n", "f", "i", "n", "i", "t", "e">>>>,
     \* go movetime +50
     <<<<"g", "o">>, <<"m", "o", "v", "e", "t", "i", "m", "e">>, <<"+", "5", "0">>>>,
     \* isready
     <<<<"i", "s", "r", "e", "a", "d", "y">>>>,
     \* (an empty line)
     <<>>}

LinesEnter ==
    [main |-> "read", lines |-> 0,
     board |-> BoardDefault, position_history |-> <<>>,
     config |-> [hash_mb |-> DEFAULT_HASH_MB, syzygy_path |-> <<>>,
                 panicked |-> FALSE],
     go |-> <<>>, last |-> <<>>]

InitLines ==
    /\ line_run = LinesEnter
    /\ TTParked /\ MGParked /\ HashParked /\ PerftParked
    /\ SearchParked /\ ABParked /\ ThreadsParked

LineBefore(run, tokens, failed) ==
    [tokens |-> tokens, failed |-> failed, board |-> run.board,
     position_history |-> run.position_history]

LinePosition(run, tokens, pos) ==
    [run EXCEPT !.board = pos.board, !.position_history = pos.history,
                !.last = LineBefore(run, tokens,
                                    pos.returned \/ pos.skipped > 0)]

LineSetoption(run, tokens, config) ==
    [run EXCEPT !.config = config,
                !.main = IF config.panicked THEN "panicked" ELSE @,
                !.last = LineBefore(run, tokens, FALSE)]

LineGo(run, tokens, params) ==
    [run EXCEPT !.go = [max_depth |-> unwrap_or(params.depth, DEFAULT_DEPTH),
                        time_limit_ms |->
                            compute_time_ms(params, run.board.side_to_move)],
                !.last = LineBefore(run, tokens, FALSE)]

\* match tokens[0]
LineArm(run, tokens) ==
    IF tokens = <<>> THEN run
    ELSE IF tokens[1] = TOKEN.position
    THEN LinePosition(run, tokens,
                      parse_position(tokens, run.board, run.position_history))
    ELSE IF tokens[1] = TOKEN.setoption
    THEN LineSetoption(run, tokens, parse_setoption(tokens, run.config))
    ELSE IF tokens[1] = TOKEN.go
    THEN LineGo(run, tokens, parse_go(tokens))
    ELSE [run EXCEPT !.last = LineBefore(run, tokens, FALSE)]

ReadLine(tokens) ==
    /\ line_run.main = "read"
    /\ line_run.lines < MaxCommandLines
    /\ line_run' = LineArm([line_run EXCEPT !.lines = @ + 1], tokens)
    /\ UNCHANGED <<ttVars, mgVars, hashVars, perftVars, searchVars, abVars,
                   uci>>

NextLines == \E tokens \in LineInputs : ReadLine(tokens)

SpecLines == InitLines /\ [][NextLines]_vars

\* C14: a position command that fails, because its FEN cannot be parsed or
\* because a token of its moves list is malformed or illegal in the
\* position reached so far, is dropped as a whole: the board and the
\* position history after it are what they were before it.
C14_FailedPositionDropped ==
    (/\ line_run # <<>>
     /\ line_run.last # <<>>
     /\ line_run.last.tokens[1] = TOKEN.position
     /\ line_run.last.failed)
        => /\ line_run.board = line_run.last.board
           /\ line_run.position_history = line_run.last.position_history

\* C15: no input line makes the engine panic or abort: the command loop
\* handles every line and goes on to read the next one.
C15_NoLinePanics ==
    line_run # <<>> => line_run.main # "panicked"

\* ------------------------------------------------------------------------
\* negamax on positions without a legal move, for every depth, ply, window,
\* table content and position history
\* ------------------------------------------------------------------------

MaxTerminalDepth == 3
MaxTerminalPly == 2

\* rnbqkbnr/pppp1ppp/4p3/8/6Pq/5P2/PPPPP2P/RNBQKBNR w KQkq - 1 3
\* (test_checkmate_score: White is mated)
FenFoolsMate ==
    [placement |-> <<"r", "n", "b", "q", "k", "b", "n", "r", "/", "p", "p", "p", "p", "1", "p", "p", "p", "/", "4", "p", "3", "/", "8", "/", "6", "P", "q", "/", "5", "P", "2", "/", "P", "P", "P", "P", "P", "2", "P", "/", "R", "N", "B", "Q", "K", "B", "N", "R">>,
     side |-> <<"w">>, castling |-> <<"K", "Q", "k", "q">>, ep |-> <<"-">>, halfmove |-> 1]

\* 7k/5Q2/6K1/8/8/8/8/8 b - - 0 1 (Black has no move and is not in check)
FenStalemate ==
    [placement |-> <<"7", "k", "/", "5", "Q", "2", "/", "6", "K", "1", "/", "8", "/", "8", "/", "8", "/", "8", "/", "8">>,
     side |-> <<"b">>, castling |-> <<"-">>, ep |-> <<"-">>, halfmove |-> 0]

TerminalFens == {FenFoolsMate, FenStalemate}

TerminalWindows ==
    {<<-SCORE_INFINITY, SCORE_INFINITY>>, <<-1, 0>>, <<50, 51>>}

\* a table that holds an exact score of 77 from depth 10 for the position
TableWithEntry(board) ==
    store(tt_new(DEFAULT_HASH_MB), board.hash, 10, 77, "Exact", NoMove, 0)

TerminalEnter(board, depth, ply, window, probed, repeated) ==
    [board |-> board, depth |-> depth, ply |-> ply,
     alpha |-> window[1], beta |-> window[2],
     st |-> [SearchStateNew EXCEPT
                !.tt = IF probed THEN TableWithEntry(board) ELSE @,
                !.position_history =
                    IF repeated THEN <<board.hash>> ELSE <<>>],
     probed |-> probed, repeated |-> repeated,
     result |-> <<>>]

InitTerminal ==
    /\ ab_run \in {TerminalEnter(from_str(fen), depth, ply, window, probed,
                                 repeated) :
                        fen \in TerminalFens, depth \in 0 .. MaxTerminalDepth,
                        ply \in 0 .. MaxTerminalPly,
                        window \in TerminalWindows,
                        probed \in BOOLEAN, repeated \in BOOLEAN}
    /\ TTParked /\ MGParked /\ HashParked /\ PerftParked /\ SearchParked
    /\ UciParked

TerminalCall ==
    /\ ab_run.result = <<>>
    /\ ab_run' =
        [ab_run EXCEPT !.result =
            <<negamax(ab_run.board, ab_run.st, ab_run.depth, ab_run.ply,
                      ab_run.alpha, ab_run.beta, TRUE).score>>]
    /\ UNCHANGED <<ttVars, mgVars, hashVars, perftVars, searchVars, uciVars>>

NextTerminal == TerminalCall

SpecTerminal == InitTerminal /\ [][NextTerminal]_vars

\* C16: with the stop flag not set, negamax on a position whose side to
\* move has no legal move returns -SCORE_MATE + ply if that side is in check
\* and 0 if it is not, for every depth, ply, window, table content and
\* position history: the terminal checks come before the repetition check
\* and the table probe.
C16_TerminalScores ==
    (/\ ab_run # <<>>
     /\ ab_run.result # <<>>
     /\ LegalMoves(ab_run.board) = <<>>)
        => ab_run.result[1] =
                IF ab_run.board.checkers # EMPTY
                THEN -SCORE_MATE + ab_run.ply ELSE 0

\* the mated position at ply 2 and depth 2, its hash in the position history
\* and an exact entry for it in the table: the call returned the mate score
C16_Witness ==
    /\ ab_run # <<>>
    /\ ab_run.result = <<-SCORE_MATE + 2>>
    /\ ab_run.ply = 2 /\ ab_run.depth = 2
    /\ ab_run.probed /\ ab_run.repeated
    /\ ab_run.board.checkers # EMPTY
    /\ probe(ab_run.st.tt, ab_run.board.hash) # <<>>

\* ------------------------------------------------------------------------
\* negamax on a node whose hash is in the position history a number of
\* times.  The history of a node is the game history handed over by the
\* position command followed by the hashes the search path has pushed; here
\* it is given as a whole: the hash of the node `occurrences` times among
\* the hashes of another position.
\* ------------------------------------------------------------------------

MaxOccurrences == 3
MaxRepetitionDepth == 2
MaxRepetitionPly == 2

RepetitionFens == {FenKingPawn, FenTrebuchet, FenRookMate}

\* the hash of a position that none of the searches reaches
OtherHash == from_str(FenStalemate).hash

HistoryOf(hash, occurrences) ==
    [i \in 1 .. 2 * occurrences + 1 |->
        IF i % 2 = 0 THEN hash ELSE OtherHash]

RepetitionEnter(board, depth, ply, occurrences) ==
    [board |-> board, depth |-> depth, ply |-> ply,
     occurrences |-> occurrences,
     result |-> <<>>, plain |-> <<>>]

InitRepetition ==
    /\ ab_run \in {RepetitionEnter(from_str(fen), depth, ply, occurrences) :
                        fen \in RepetitionFens,
                        depth \in 0 .. MaxRepetitionDepth,
                        ply \in 0 .. MaxRepetitionPly,
                        occurrences \in 0 .. MaxOccurrences}
    /\ TTParked /\ MGParked /\ HashParked /\ PerftParked /\ SearchParked
    /\ UciParked

\* the node with its history
RepetitionCall ==
    /\ ab_run.result = <<>>
    /\ ab_run' =
        [ab_run EXCEPT !.result =
            <<negamax(ab_run.board,
                      [SearchStateNew EXCEPT !.position_history =
                          HistoryOf(ab_run.board.hash, ab_run.occurrences)],
                      ab_run.depth, ab_run.ply,
                      -SCORE_INFINITY, SCORE_INFINITY, TRUE).score>>]
    /\ UNCHANGED <<ttVars, mgVars, hashVars, perftVars, searchVars, uciVars>>

\* the same node with a history that does not hold its hash
RepetitionPlain ==
    /\ ab_run.plain = <<>>
    /\ ab_run' =
        [ab_run EXCEPT !.plain =
            <<negamax(ab_run.board,
                      [SearchStateNew EXCEPT !.position_history =
                          HistoryOf(ab_run.board.hash, 0)],
                      ab_run.depth, ab_run.ply,
                      -SCORE_INFINITY, SCORE_INFINITY, TRUE).score>>]
    /\ UNCHANGED <<ttVars, mgVars, hashVars, perftVars, searchVars, uciVars>>

NextRepetition == RepetitionCall \/ RepetitionPlain

SpecRepetition == InitRepetition /\ [][NextRepetition]_vars

RepetitionDone ==
    /\ ab_run # <<>>
    /\ ab_run.result # <<>>
    /\ ab_run.plain # <<>>

\* the node was returned as 0 and would not have been without its hash in
\* the history
DrawnByRepetition == ab_run.result = <<0>> /\ ab_run.plain # <<0>>

\* C17 as stated: a position is scored as a repetition draw only on a
\* threefold repetition: a node whose hash occurs fewer than two times
\* earlier is never returned as 0 on account of repetition.
C17_OnlyThreefold ==
    (RepetitionDone /\ ab_run.occurrences < 2) => ~DrawnByRepetition

\* C17 amended: a position is scored as a repetition draw on any
\* repetition: a node at ply > 0 that has a legal move and whose hash
\* occurs at least once earlier is returned as 0, and a node whose hash
\* does not occur earlier, or the root, is never returned as 0 on account of
\* repetition (its score is the one of the search without that hash).
C17_OnAnyRepetition ==
    RepetitionDone =>
        IF ab_run.ply > 0 /\ ab_run.occurrences >= 1
        THEN ab_run.result = <<0>>
        ELSE ab_run.result = ab_run.plain

\* a node at ply 1 whose hash is in the history once was returned as 0,
\* where the search without that hash returns another score
C17_Witness ==
    /\ RepetitionDone
    /\ ab_run.ply = 1 /\ ab_run.occurrences = 1 /\ ab_run.depth = 2
    /\ DrawnByRepetition

\* ------------------------------------------------------------------------
\* The bitboards of the boards met along the walks of SpecHash
\* ------------------------------------------------------------------------

ColorsDisjoint(b) == b.colors[White] \cap b.colors[Black] = {}

PiecesDisjoint(b) ==
    \A p, q \in Pawn .. King : p < q => b.pieces[p] \cap b.pieces[q] = {}

PiecesAreColors(b) ==
    UNION {b.pieces[p] : p \in Pawn .. King}
        = b.colors[White] \cup b.colors[Black]

OneKingEach(b) ==
    \A c \in {White, Black} :
        Cardinality(b.pieces[King] \cap b.colors[c]) = 1

\* C18: on every board reached from the start position by legal moves and
\* allowed null moves the two color bitboards are disjoint, the six piece
\* bitboards are pairwise disjoint, the union of the piece bitboards is the
\* union of the color bitboards, and each color has exactly one king.
C18_BitboardsConsistent ==
    hash_board # <<>> =>
        /\ ColorsDisjoint(hash_board)
        /\ PiecesDisjoint(hash_board)
        /\ PiecesAreColors(hash_board)
        /\ OneKingEach(hash_board)

\* Kiwipete after White has castled short and the pawn b4 has taken the
\* knight on c3: the rook stands on f1, the knight is gone from both its
\* bitboards
C18_Witness ==
    /\ hash_walk = <<ChessMoveNew(4, 6, NoPiece), ChessMoveNew(25, 18, NoPiece)>>
    /\ 5 \in hash_board.pieces[Rook] \cap hash_board.colors[White]
    /\ 7 \notin combined(hash_board)
    /\ 18 \in hash_board.pieces[Pawn] \cap hash_board.colors[Black]
    /\ 18 \notin hash_board.pieces[Knight] \cup hash_board.colors[White]
    /\ C18_BitboardsConsistent

\* ------------------------------------------------------------------------
\* Castling rights of the boards from_str makes and of the boards that
\* follow by legal moves
\* ------------------------------------------------------------------------

\* 4k3/8/8/8/8/8/8/4K3 w KQkq - 0 1 (all four rights, no rook)
FenRightsWithoutRooks ==
    [placement |-> <<"4", "k", "3", "/", "8", "/", "8", "/", "8", "/", "8", "/", "8", "/", "8", "/", "4", "K", "3">>,
     side |-> <<"w">>, castling |-> <<"K", "Q", "k", "q">>, ep |-> <<"-">>, halfmove |-> 0]

CastlingFens == {StartFen, KiwipeteFen, FenRightsWithoutRooks}

InitFen ==
    /\ hash_board \in {from_str(f) : f \in CastlingFens}
    /\ hash_walk = <<>>
    /\ TTParked /\ MGParked /\ PerftParked /\ EngineParked

SpecFen == InitFen /\ [][NextHash]_vars

\* the king and the rook of a castling right on their original squares
RightInPlace(b, color, king_sq, rook_sq) ==
    /\ king_sq \in b.pieces[King] \cap b.colors[color]
    /\ rook_sq \in b.pieces[Rook] \cap b.colors[color]

\* C19: in every board made by from_str from a FEN it accepts, and in every
\* board that follows by legal moves, a castling-rights bit is set only if
\* that side's king and the rook of that wing stand on their original
\* squares.
C19_RightsNeedKingAndRook ==
    (hash_board # <<>> /\ "err" \notin DOMAIN hash_board) =>
        /\ WK \in hash_board.castling => RightInPlace(hash_board, White, 4, 7)
        /\ WQ \in hash_board.castling => RightInPlace(hash_board, White, 4, 0)
        /\ BK \in hash_board.castling => RightInPlace(hash_board, Black, 60, 63)
        /\ BQ \in hash_board.castling => RightInPlace(hash_board, Black, 60, 56)

\* ------------------------------------------------------------------------
\* null_move applied twice
\* ------------------------------------------------------------------------

\* 4k3/8/8/8/8/8/8/4RK2 w - - 0 1 (White is to move and attacks the black
\* king)
FenOpponentInCheck ==
    [placement |-> <<"4", "k", "3", "/", "8", "/", "8", "/", "8", "/", "8", "/", "8", "/", "8", "/", "4", "R", "K", "2">>,
     side |-> <<"w">>, castling |-> <<"-">>, ep |-> <<"-">>, halfmove |-> 0]

NullFens ==
    {StartFen, KiwipeteFen, Position3Fen, EnPassantFen, FenOpponentInCheck}

\* the boards null_move is applied to: the positions and the boards one
\* legal move after them
NullBoards ==
    UNION {{from_str(f)} \cup
           {make_move_new(from_str(f), mv) : mv \in Range(LegalMoves(from_str(f)))} :
                f \in NullFens}

MaxNullMoves == 2

InitNullMove ==
    /\ hash_board \in NullBoards
    /\ hash_walk = <<>>
    /\ TTParked /\ MGParked /\ PerftParked /\ EngineParked

\* the board null_move is applied to next: b, then b1
NullMoveOf(b, results) ==
    IF results = <<>> THEN null_move(b) ELSE null_move(results[Len(results)])

\* b.null_move(), then b1.null_move(); hash_walk keeps what they returned
NullMoveAgain ==
    /\ Len(hash_walk) < MaxNullMoves
    /\ hash_walk # <<>> => hash_walk[Len(hash_walk)] # [none |-> TRUE]
    /\ hash_walk' = Append(hash_walk, NullMoveOf(hash_board, hash_walk))
    /\ UNCHANGED <<hash_board, ttVars, mgVars, perftVars, engineVars>>

NextNullMove == NullMoveAgain

SpecNullMove == InitNullMove /\ [][NextNullMove]_vars

\* Board::eq and the hash
SameBoard(a, b) ==
    /\ a.pieces = b.pieces
    /\ a.colors = b.colors
    /\ a.side_to_move = b.side_to_move
    /\ a.castling = b.castling
    /\ a.ep_square = b.ep_square
    /\ a.hash = b.hash

\* what the claim says of the results so far
Involution(b, results) ==
    /\ \A i \in DOMAIN results : results[i] # [none |-> TRUE]
    /\ Len(results) = 2 => SameBoard(results[2], b)

NullMoveAllowed(b) == b.checkers = EMPTY /\ b.ep_square = NoSquare

\* C20 as stated: for any board b whose side to move is not in check and
\* that has no en-passant square, b.null_move() returns a board b1,
\* b1.null_move() returns a board b2, and b2 equals b in pieces, colors,
\* side to move, castling rights, en-passant square and hash.
C20_NullMoveInvolution ==
    (hash_board # <<>> /\ NullMoveAllowed(hash_board))
        => Involution(hash_board, hash_walk)

\* C20 amended: the same for any board b in which neither side is in check
\* and that has no en-passant square.
C20_NullMoveInvolutionLegal ==
    (/\ hash_board # <<>>
     /\ NullMoveAllowed(hash_board)
     /\ ~is_king_attacked(hash_board, NotColor(hash_board.side_to_move)))
        => Involution(hash_board, hash_walk)

\* Kiwipete after its second null move: White is to move again and the
\* board in between had Black to move
C20_Witness ==
    /\ hash_board = from_str(KiwipeteFen)
    /\ Len(hash_walk) = 2
    /\ hash_walk[1].side_to_move = Black
    /\ hash_walk[1].hash # hash_board.hash
    /\ SameBoard(hash_walk[2], hash_board)

\* ------------------------------------------------------------------------
\* null_move: when it returns nothing and what it leaves alone
\* ------------------------------------------------------------------------

\* the first null_move of hash_board has returned
NullMoveReturned == hash_board # <<>> /\ Len(hash_walk) >= 1

\* the board null_move returned, compared with the one it was called on
NullMoveFrame(b, b1) ==
    /\ b1.pieces = b.pieces
    /\ b1.colors = b.colors
    /\ b1.castling = b.castling
    /\ b1.halfmove_clock = b.halfmove_clock
    /\ b1.side_to_move = NotColor(b.side_to_move)
    /\ b1.ep_square = NoSquare

\* C21: null_move returns nothing if and only if the side to move is in
\* check (checkers non-empty, which is the case exactly when the king of the
\* side to move is attacked); when it returns a board, that board has the
\* same piece and color bitboards, castling rights and half-move clock as
\* the original, the side to move flipped and no en-passant square.
C21_NullMoveFrame ==
    NullMoveReturned =>
        /\ (hash_walk[1] = [none |-> TRUE]) <=> (hash_board.checkers # EMPTY)
        /\ (hash_board.checkers # EMPTY)
              <=> is_king_attacked(hash_board, hash_board.side_to_move)
        /\ hash_walk[1] # [none |-> TRUE]
              => NullMoveFrame(hash_board, hash_walk[1])

\* a board with an en-passant square and the side to move not in check is
\* handed over: the board returned has no en-passant square, the other
\* side to move and another hash
C21_Witness ==
    /\ NullMoveReturned
    /\ hash_board.ep_square # NoSquare
    /\ hash_board.checkers = EMPTY
    /\ hash_walk[1] # [none |-> TRUE]
    /\ hash_walk[1].ep_square = NoSquare
    /\ hash_walk[1].side_to_move # hash_board.side_to_move
    /\ hash_walk[1].hash # hash_board.hash

\* ------------------------------------------------------------------------
\* The time limit of a go line: compute_time_ms, then check_time against it
\* ------------------------------------------------------------------------

MaxClock == 60000

\* the clocks, increments and moves to go of the go lines; -1 is a
\* parameter the line does not give
ClockTimes == {-1, 0, 1, 2, 5, 29, 30, 31, 1000, MaxClock}
ClockOtherTimes == {-1, 30, MaxClock}
ClockIncs == {-1, 0, 1, 2, 1000}
ClockOtherIncs == {-1, 1000}
ClockMovesToGo == {-1, 0, 1, 30, 40}
ClockMoveTimes == {-1, 500}
ClockElapsed == {0, 1, MaxClock}

\* the GoParams of a line: the side to move gets my_time and my_inc
ClockParams(side, my_time, my_inc, other_time, other_inc, movestogo, movetime, infinite) ==
    [depth |-> -1, movetime |-> movetime,
     wtime |-> IF side = White THEN my_time ELSE other_time,
     btime |-> IF side = White THEN other_time ELSE my_time,
     winc |-> IF side = White THEN my_inc ELSE other_inc,
     binc |-> IF side = White THEN other_inc ELSE my_inc,
     movestogo |-> movestogo, infinite |-> infinite]

InitClock ==
    /\ \E side \in {White, Black}, my_time \in ClockTimes,
          my_inc \in ClockIncs, other_time \in ClockOtherTimes,
          other_inc \in ClockOtherIncs, movestogo \in ClockMovesToGo,
          movetime \in ClockMoveTimes, infinite \in BOOLEAN :
            line_run = [pc |-> "go", side |-> side,
                        params |-> ClockParams(side, my_time, my_inc,
                                               other_time, other_inc,
                                               movestogo, movetime, infinite),
                        ss |-> [time_limit_ms |-> 0, ticks |-> 0,
                                stop |-> FALSE]]
    /\ TTParked /\ MGParked /\ HashParked /\ PerftParked
    /\ SearchParked /\ ABParked /\ ThreadsParked

\* run(), the go arm: ss.time_limit_ms = go_params.compute_time_ms(side)
ClockGo ==
    /\ line_run.pc = "go"
    /\ line_run' =
          [line_run EXCEPT
              !.pc = "search",
              !.ss.time_limit_ms = compute_time_ms(line_run.params,
                                                   line_run.side)]
    /\ UNCHANGED <<ttVars, mgVars, hashVars, perftVars, searchVars, abVars,
                   uci>>

\* check_time() of the search, elapsed milliseconds after its start
ClockCheckTime(elapsed) ==
    /\ line_run.pc = "search"
    /\ line_run' =
          [line_run EXCEPT
              !.pc = "checked",
              !.ss = check_time([@ EXCEPT !.ticks = elapsed])]
    /\ UNCHANGED <<ttVars, mgVars, hashVars, perftVars, searchVars, abVars,
                   uci>>

NextClock ==
    \/ ClockGo
    \/ \E elapsed \in ClockElapsed : ClockCheckTime(elapsed)

SpecClock == InitClock /\ [][NextClock]_vars

\* the clock of the side to move, None read as 0
ClockOf(run) ==
    IF run.side = White THEN unwrap_or(run.params.wtime, 0)
    ELSE unwrap_or(run.params.btime, 0)

\* a go line with a running clock and neither infinite nor movetime
ClockRuns(run) ==
    /\ ~run.params.infinite
    /\ run.params.movetime = -1
    /\ ClockOf(run) > 0

\* C22: with a clock T > 0 for the side to move and neither infinite nor
\* movetime given, compute_time_ms returns a limit L with
\* 1 <= L <= 4*T/5 for every increment and every movestogo, so that the
\* search runs under a hard time limit: check_time sets the stop flag once
\* the whole clock has elapsed.
C22_ClockGivesLimit ==
    (line_run # <<>> /\ line_run.pc # "go" /\ ClockRuns(line_run))
        => /\ 1 <= line_run.ss.time_limit_ms
           /\ line_run.ss.time_limit_ms <= (ClockOf(line_run) * 4) \div 5
           /\ (line_run.pc = "checked"
                  /\ line_run.ss.ticks >= ClockOf(line_run))
                  => line_run.ss.stop

\* ------------------------------------------------------------------------
\* negamax on a node whose hash is in the position history, for every
\* depth, ply, window and table content
\* ------------------------------------------------------------------------

RepeatedFens == {FenKingPawn, FenTrebuchet}

RepeatedWindows ==
    {<<-SCORE_INFINITY, SCORE_INFINITY>>, <<-1, 0>>, <<50, 51>>}

\* the SearchState of the call: the table empty or with an exact entry for
\* the node, the history with or without the hash of the node
RepeatedState(run, occurrences) ==
    [SearchStateNew EXCEPT
        !.tt = IF run.probed THEN TableWithEntry(run.board) ELSE @,
        !.position_history = HistoryOf(run.board.hash, occurrences)]

RepeatedEnter(board, depth, ply, window, probed, occurrences) ==
    [board |-> board, depth |-> depth, ply |-> ply,
     alpha |-> window[1], beta |-> window[2], probed |-> probed,
     occurrences |-> occurrences, result |-> <<>>, plain |-> <<>>]

InitRepeated ==
    /\ ab_run \in {RepeatedEnter(from_str(fen), depth, ply, window, probed,
                                 occurrences) :
                        fen \in RepeatedFens,
                        depth \in 0 .. MaxRepetitionDepth,
                        ply \in 0 .. MaxRepetitionPly,
                        window \in RepeatedWindows, probed \in BOOLEAN,
                        occurrences \in 1 .. MaxOccurrences - 1}
    /\ TTParked /\ MGParked /\ HashParked /\ PerftParked /\ SearchParked
    /\ UciParked

\* the node with its hash in the history
RepeatedCall ==
    /\ ab_run.result = <<>>
    /\ ab_run' =
        [ab_run EXCEPT !.result =
            <<negamax(ab_run.board,
                      RepeatedState(ab_run, ab_run.occurrences),
                      ab_run.depth, ab_run.ply, ab_run.alpha, ab_run.beta,
                      TRUE).score>>]
    /\ UNCHANGED <<ttVars, mgVars, hashVars, perftVars, searchVars, uciVars>>

\* the same call with a history that does not hold the hash
RepeatedPlain ==
    /\ ab_run.plain = <<>>
    /\ ab_run' =
        [ab_run EXCEPT !.plain =
            <<negamax(ab_run.board, RepeatedState(ab_run, 0),
                      ab_run.depth, ab_run.ply, ab_run.alpha, ab_run.beta,
                      TRUE).score>>]
    /\ UNCHANGED <<ttVars, mgVars, hashVars, perftVars, searchVars, uciVars>>

NextRepeated == RepeatedCall \/ RepeatedPlain

SpecRepeated == InitRepeated /\ [][NextRepeated]_vars

\* C23: when the stop flag is not set, negamax called at ply > 0 on a
\* position that has a legal move and whose hash occurs at least once in
\* position_history returns exactly 0, for every depth, window and
\* transposition-table content; at ply 0 the history is not consulted: the
\* call returns what it returns without the hash in the history.
C23_RepetitionReturnsZero ==
    (/\ ab_run # <<>>
     /\ ab_run.result # <<>>
     /\ LegalMoves(ab_run.board) # <<>>)
        => /\ ab_run.ply > 0 => ab_run.result = <<0>>
           /\ (ab_run.ply = 0 /\ ab_run.plain # <<>>)
                  => ab_run.result = ab_run.plain

\* a node at ply 1 with one earlier occurrence, a window that excludes 0 and
\* an exact table entry of sufficient depth was returned as 0, where the
\* same call without the hash in the history returns the table's score
C23_Witness ==
    /\ ab_run # <<>>
    /\ ab_run.ply = 1 /\ ab_run.occurrences = 1 /\ ab_run.depth = 2
    /\ ab_run.alpha = 50 /\ ab_run.beta = 51
    /\ ab_run.probed
    /\ ab_run.result = <<0>>
    /\ ab_run.plain = <<77>>

\* ------------------------------------------------------------------------
\* negamax on a node whose table slot holds an entry: when the score of the
\* entry is returned without a search
\* ------------------------------------------------------------------------

MaxProbeDepth == 2
MaxProbePly == 2

ProbeFens == {FenKingPawn}

ProbeWindows == {<<-SCORE_INFINITY, SCORE_INFINITY>>, <<50, 51>>}

\* scores of entries: one below the narrow window and a mate score above it
ProbeScores == {-30, SCORE_MATE - 3}

ProbeFlags == {"Exact", "LowerBound", "UpperBound"}

\* the key of the entry in the slot of the node: the hash of the node, or a
\* key of the same slot that differs from it in its highest bit
ProbeKey(board, same_key) ==
    IF same_key THEN board.hash ELSE Xor(board.hash, {63})

\* the last move the generator gives for the node
LastMove(board) == LegalMoves(board)[Len(LegalMoves(board))]

ProbeEnter(board, depth, ply, window, same_key, entry_depth, score, flag) ==
    [board |-> board, depth |-> depth, ply |-> ply,
     alpha |-> window[1], beta |-> window[2],
     entry |-> [key |-> ProbeKey(board, same_key), depth |-> entry_depth,
                score |-> score, flag |-> flag,
                best_move |-> LastMove(board)],
     result |-> <<>>, plain |-> <<>>]

InitProbe ==
    /\ ab_run \in {ProbeEnter(from_str(fen), depth, ply, window, same_key,
                              entry_depth, score, flag) :
                        fen \in ProbeFens, depth \in 1 .. MaxProbeDepth,
                        ply \in {0, MaxProbePly}, window \in ProbeWindows,
                        same_key \in BOOLEAN,
                        entry_depth \in 0 .. MaxProbeDepth + 1,
                        score \in ProbeScores, flag \in ProbeFlags}
    /\ TTParked /\ MGParked /\ HashParked /\ PerftParked /\ SearchParked
    /\ UciParked

\* a SearchState whose table holds the entry and nothing else
ProbeState(entry) ==
    [SearchStateNew EXCEPT
        !.tt = store(@, entry.key, entry.depth, entry.score, entry.flag,
                     entry.best_move, 0)]

\* what a call left: its score and the nodes it counted
ProbeResult(r) == <<[score |-> r.score, nodes |-> r.st.nodes]>>

\* negamax on the node with the entry in the table
ProbeCall ==
    /\ ab_run.result = <<>>
    /\ ab_run' =
        [ab_run EXCEPT !.result =
            ProbeResult(negamax(ab_run.board, ProbeState(ab_run.entry),
                                ab_run.depth, ab_run.ply, ab_run.alpha,
                                ab_run.beta, TRUE))]
    /\ UNCHANGED <<ttVars, mgVars, hashVars, perftVars, searchVars, uciVars>>

\* the same call with an entry of depth 0, which gives its best move only
ProbePlain ==
    /\ ab_run.plain = <<>>
    /\ ab_run' =
        [ab_run EXCEPT !.plain =
            ProbeResult(negamax(ab_run.board,
                                ProbeState([ab_run.entry EXCEPT !.depth = 0]),
                                ab_run.depth, ab_run.ply, ab_run.alpha,
                                ab_run.beta, TRUE))]
    /\ UNCHANGED <<ttVars, mgVars, hashVars, perftVars, searchVars, uciVars>>

NextProbe == ProbeCall \/ ProbePlain

SpecProbe == InitProbe /\ [][NextProbe]_vars

\* the score of an entry as seen from the ply of the node
PlyAdjusted(score, ply) ==
    IF score > SCORE_MATE - 100 THEN score - ply
    ELSE IF score < -SCORE_MATE + 100 THEN score + ply
    ELSE score

\* the three conditions of the claim
ProbeJustified(run) ==
    /\ run.entry.key = run.board.hash
    /\ run.entry.depth >= run.depth
    /\ \/ run.entry.flag = "Exact"
       \/ /\ run.entry.flag = "LowerBound"
          /\ PlyAdjusted(run.entry.score, run.ply) >= run.beta
       \/ /\ run.entry.flag = "UpperBound"
          /\ PlyAdjusted(run.entry.score, run.ply) <= run.alpha

\* the call returned without searching a child: it counted its own node only
ProbeUnsearched(run) == run.result[1].nodes = 1

\* C24: negamax returns a score taken from the transposition table without
\* searching the node only when the stored key equals the node's full hash,
\* the entry's depth is >= the node's remaining depth, and the ply-adjusted
\* score is justified by the bound (Exact always, Lower only if score >=
\* beta, Upper only if score <= alpha), and the score it then returns is the
\* ply-adjusted one.  In every other case the entry contributes at most its
\* best move: the call returns what it returns with an entry that has the
\* same key and best move and depth 0, and searches as many nodes.
C24_TableCutoffJustified ==
    (ab_run # <<>> /\ ab_run.result # <<>>)
        => /\ ProbeUnsearched(ab_run)
                => /\ ProbeJustified(ab_run)
                   /\ ab_run.result[1].score =
                        PlyAdjusted(ab_run.entry.score, ab_run.ply)
           /\ (~ProbeJustified(ab_run) /\ ab_run.plain # <<>>)
                => ab_run.result = ab_run.plain

\* at ply 2 a lower-bound entry of the node's depth with a mate score above
\* beta was returned ply-adjusted without a search, where the search with
\* the best move alone visits more nodes
C24_Witness ==
    /\ ab_run # <<>>
    /\ ab_run.result # <<>> /\ ab_run.plain # <<>>
    /\ ab_run.ply = 2 /\ ab_run.depth = 2
    /\ ab_run.entry.depth = 2 /\ ab_run.entry.flag = "LowerBound"
    /\ ab_run.entry.key = ab_run.board.hash
    /\ ab_run.beta = 51
    /\ ab_run.result[1] = [score |-> SCORE_MATE - 5, nodes |-> 1]
    /\ ab_run.plain[1].nodes > 1

\* ------------------------------------------------------------------------
\* The node counter and the hard time limit: the ticks of a search, one per
\* node, each by negamax or by quiescence
\* ------------------------------------------------------------------------

MaxNodes == 4100

\* hard limits, the clock of the model advancing one millisecond per node
TickLimits == {1, 3000}

\* search(): the state before the root node; unchecked counts the ticks
\* since the elapsed time was last compared with the limit
InitTicks ==
    /\ \E limit \in TickLimits :
          search_run = [st |-> [SearchStateNew EXCEPT
                                   !.time_limit_ms = limit],
                        unchecked |-> 0, root |-> TRUE]
    /\ TTParked /\ MGParked /\ HashParked /\ PerftParked
    /\ ABParked /\ UciParked

\* the head of negamax (the root is a negamax node):
\* state.nodes += 1; if state.nodes & 2047 == 0 { state.check_time() }
NegamaxEnter ==
    /\ ~search_run.st.stop
    /\ search_run.st.nodes < MaxNodes
    /\ search_run' =
          [st |-> CheckTimeEvery2048(TickNode(search_run.st)),
           unchecked |-> IF (search_run.st.nodes + 1) % 2048 = 0
                         THEN 0 ELSE search_run.unchecked + 1,
           root |-> FALSE]
    /\ UNCHANGED <<ttVars, mgVars, hashVars, perftVars, abVars, uciVars>>

\* the head of quiescence: state.nodes += 1
QuiescenceEnter ==
    /\ ~search_run.root
    /\ ~search_run.st.stop
    /\ search_run.st.nodes < MaxNodes
    /\ search_run' =
          [search_run EXCEPT !.st = TickNode(@), !.unchecked = @ + 1]
    /\ UNCHANGED <<ttVars, mgVars, hashVars, perftVars, abVars, uciVars>>

NextTicks == NegamaxEnter \/ QuiescenceEnter

SpecTicks == InitTicks /\ [][NextTicks]_vars

\* C25: during a search with a time limit, the elapsed time is compared
\* against the hard limit at least once in every 2,048 consecutive ticks of
\* the node counter, where both negamax nodes and quiescence nodes tick the
\* counter.
C25_CheckedEvery2048 ==
    search_run # <<>> => search_run.unchecked < 2048

\* ------------------------------------------------------------------------
\* order_moves and order_captures: which moves are returned and in which
\* order
\* ------------------------------------------------------------------------

\* 4k3/8/7b/8/3p4/2N5/4P3/4K3 w - - 0 1: after e2e4 the black pawn can take
\* en passant on e3 and the black bishop can move to e3
FenBishopToEp ==
    [placement |-> <<"4", "k", "3", "/", "8", "/", "7", "b", "/", "8", "/", "3", "p", "4", "/", "2", "N", "5", "/", "4", "P", "3", "/", "4", "K", "3">>,
     side |-> <<"w">>, castling |-> <<"-">>, ep |-> <<"-">>, halfmove |-> 0]

\* the positions the calls are made on, and the ones they are made on
\* together with every board one legal move later
OrderFens == {StartFen, KiwipeteFen, PromotionFen, SmallCaptureFen}
OrderWalkFens == {FenBishopToEp, SmallEnPassantFen}

OrderBoards ==
    {from_str(f) : f \in OrderFens \cup OrderWalkFens} \cup
    UNION {{make_move_new(from_str(f), mv) :
                mv \in Range(LegalMoves(from_str(f)))} : f \in OrderWalkFens}

\* a capture: the destination holds an enemy piece, or a pawn moves onto the
\* en-passant square
IsCapture(b, mv) ==
    \/ get_dest(mv) \in b.colors[NotColor(b.side_to_move)]
    \/ /\ piece_on(b, get_source(mv)) = Pawn
       /\ get_dest(mv) = b.ep_square

QuietMoves(b) == SelectSeq(LegalMoves(b), LAMBDA mv : ~IsCapture(b, mv))

\* a1h8, a legal move in none of the positions
ForeignMove == ChessMoveNew(0, 63, NoPiece)

\* the hash moves, killers and history tables of the calls: none, moves of
\* the position, a move of another position; a table with one cell written
OrderHashMoves(b) ==
    {NoMove, ForeignMove} \cup
    (IF LegalMoves(b) = <<>> THEN {}
     ELSE {LegalMoves(b)[Len(LegalMoves(b))]})

OrderKillersOf(quiets) ==
    {<<NoMove, NoMove>>} \cup
    (IF Len(quiets) < 3 THEN {}
     ELSE {<<quiets[1], quiets[Len(quiets)]>>})

HistoryCell(b, mv, value) ==
    [c \in {<<piece_to_index(piece_on(b, get_source(mv))), get_dest(mv)>>}
        |-> value]

OrderHistoriesOf(b, quiets) ==
    {<<>>} \cup
    (IF Len(quiets) < 3 THEN {}
     ELSE {HistoryCell(b, quiets[2], value) : value \in {1, HISTORY_MAX}})

OrderEnter(call, board, hash_move, killers, history) ==
    [pc |-> "call", call |-> call, board |-> board, hash_move |-> hash_move,
     killers |-> killers, history |-> history,
     scored |-> <<>>, returned |-> <<>>]

OrderCalls(b) ==
    {OrderEnter("order_captures", b, NoMove, <<NoMove, NoMove>>, <<>>)} \cup
    {OrderEnter("order_moves", b, hash_move, killers, history) :
        hash_move \in OrderHashMoves(b),
        killers \in OrderKillersOf(QuietMoves(b)),
        history \in OrderHistoriesOf(b, QuietMoves(b))}

InitOrder ==
    /\ order_run \in UNION {OrderCalls(b) : b \in OrderBoards}
    /\ GeneratorParked /\ TTParked /\ HashParked /\ PerftParked
    /\ EngineParked

\* the list with the elements at i and i + 1 exchanged if they have the
\* same score (i = 0: the list itself)
ExchangedTie(list, i) ==
    IF i = 0 THEN list
    ELSE IF list[i].score # list[i + 1].score THEN list
    ELSE [k \in DOMAIN list |->
            IF k = i THEN list[i + 1] ELSE IF k = i + 1 THEN list[i]
            ELSE list[k]]

\* scored.sort_unstable_by(|a, b| b.score.cmp(&a.score)): the lists the call
\* can leave.  Up to 20 elements the standard library sorts by insertion,
\* which keeps equal scores in their order.  Above that the order of equal
\* scores is not specified; of the lists in descending score order the
\* model takes the one that keeps them in order and each one that differs
\* from it by the exchange of two neighbours of equal score.
SortedLists(sorted) ==
    {ExchangedTie(sorted, i) : i \in 0 .. Len(sorted) - 1}

sort_unstable_by(scored) ==
    IF Len(scored) <= 20 THEN {SortByScore(scored)}
    ELSE SortedLists(SortByScore(scored))

\* the end of both functions: sort, return
OrderReturn(scored) ==
    \E sorted \in sort_unstable_by(scored) :
        order_run' = [order_run EXCEPT !.pc = "returned",
                                       !.scored = scored,
                                       !.returned = sorted]

\* order_moves(board, hash_move, killers, history, ply)
OrderMoves ==
    /\ order_run.pc = "call"
    /\ order_run.call = "order_moves"
    /\ OrderReturn(ScoredMovesOf(order_run.board, new_legal(order_run.board),
                                 order_run.hash_move, order_run.killers,
                                 order_run.history))
    /\ UNCHANGED <<mg_board, movegen, yielded, drained, ttVars, hashVars,
                   perftVars, engineVars>>

\* order_captures(board)
OrderCaptures ==
    /\ order_run.pc = "call"
    /\ order_run.call = "order_captures"
    /\ OrderReturn(ScoredCapturesOf(order_run.board,
                                    new_legal(order_run.board)))
    /\ UNCHANGED <<mg_board, movegen, yielded, drained, ttVars, hashVars,
                   perftVars, engineVars>>

NextOrder == OrderMoves \/ OrderCaptures

SpecOrder == InitOrder /\ [][NextOrder]_vars

OrderReturned(call) ==
    /\ order_run # <<>>
    /\ order_run.pc = "returned"
    /\ order_run.call = call

\* C26: every move returned by order_captures is a capture: its destination
\* holds an enemy piece, or it is a pawn capturing en passant on the EP
\* square.  No quiet move, in particular no non-pawn move onto the empty EP
\* square, is returned.
C26_CapturesOnly ==
    OrderReturned("order_captures") =>
        \A i \in DOMAIN order_run.returned :
            IsCapture(order_run.board, order_run.returned[i].mv)

\* the move is in the list
Listed(list, mv) == \E i \in DOMAIN list : list[i].mv = mv

\* a quiet move that is neither the hash move nor a promotion
PlainQuiet(run, mv) ==
    /\ ~IsCapture(run.board, mv)
    /\ mv # run.hash_move
    /\ get_promotion(mv) = NoPiece

IsKiller(run, mv) == mv = run.killers[1] \/ mv = run.killers[2]

\* C27: in the list returned by order_moves the priority order of the
\* documentation holds for every history table the search can produce
\* (values 0..HISTORY_MAX): the hash move, if legal, comes first; every
\* capture precedes every quiet move that is not the hash move; and each
\* killer move precedes every other non-promotion quiet move.
C27_PriorityOrder ==
    OrderReturned("order_moves") =>
        /\ Listed(order_run.returned, order_run.hash_move)
              => order_run.returned[1].mv = order_run.hash_move
        /\ \A i, j \in DOMAIN order_run.returned :
              (/\ IsCapture(order_run.board, order_run.returned[i].mv)
               /\ ~IsCapture(order_run.board, order_run.returned[j].mv)
               /\ order_run.returned[j].mv # order_run.hash_move)
                  => i < j
        /\ \A i, j \in DOMAIN order_run.returned :
              (/\ PlainQuiet(order_run, order_run.returned[i].mv)
               /\ IsKiller(order_run, order_run.returned[i].mv)
               /\ PlainQuiet(order_run, order_run.returned[j].mv)
               /\ ~IsKiller(order_run, order_run.returned[j].mv))
                  => i < j

\* the place of a move in the list
IndexOf(list, mv) == CHOOSE i \in DOMAIN list : list[i].mv = mv

\* the list is the stable descending sort of scored: scores do not
\* increase, and of two moves with the same score the one pushed first
\* comes first
StableDescending(list, scored) ==
    \A i, j \in DOMAIN list :
        i < j =>
            \/ list[i].score > list[j].score
            \/ /\ list[i].score = list[j].score
               /\ IndexOf(scored, list[i].mv) < IndexOf(scored, list[j].mv)

\* C28: order_moves and order_captures order moves by a stable descending
\* sort: the result is in non-increasing score order and moves with equal
\* scores keep their generation order (the order in which the capture pass,
\* the en-passant pass and the quiet pass pushed them).
C28_StableDescendingSort ==
    (order_run # <<>> /\ order_run.pc = "returned")
        => StableDescending(order_run.returned, order_run.scored)

\* ------------------------------------------------------------------------
\* The frames of a search, one step at a time: search, negamax and
\* quiescence as a stack of frames, each at a position of its code.  Boards
\* are their hashes and scores are left open: every comparison of scores can
\* go either way.
\* ------------------------------------------------------------------------

MaxFrameDepth == 4
MaxFramePly == 5
MaxFrameMoves == 4
FrameHashes == 1..2
FrameHistories == {<<>>, <<1>>}

\* a frame that has just been called
Frame(fn, depth, ply, hash, can_null) ==
    [fn |-> fn, pc |-> "enter", depth |-> depth, ply |-> ply, hash |-> hash,
     can_null |-> can_null, move_num |-> 0, child |-> 0]

\* go: reset() clears the flag, position_history is the history of the
\* position command, and the thread calls search
FrameStart(given, board, max_depth) ==
    [stack |-> <<>>, position_history |-> given, given |-> given,
     board |-> board, max_depth |-> max_depth, depth |-> 0, pc |-> "for",
     stop |-> FALSE, observed |-> FALSE, aborted |-> FALSE, did |-> {}]

InitFrames ==
    /\ \E given \in FrameHistories, board \in FrameHashes,
          max_depth \in 1..MaxFrameDepth :
          search_run = FrameStart(given, board, max_depth)
    /\ TTParked /\ MGParked /\ HashParked /\ PerftParked
    /\ ABParked /\ UciParked

Top(run) == run.stack[Len(run.stack)]

At(run, fn, pc) ==
    /\ run.stack # <<>>
    /\ Top(run).fn = fn
    /\ Top(run).pc = pc

\* the frame on top moves on to pc
Goto(run, pc, did) ==
    [run EXCEPT !.stack[Len(run.stack)].pc = pc, !.did = did]

\* the frame on top calls a child and will resume at pc
Call(run, pc, child, did) ==
    [run EXCEPT !.stack = Append([@ EXCEPT ![Len(@)].pc = pc,
                                           ![Len(@)].child = child.hash],
                                 child),
                !.aborted = FALSE, !.did = did]

\* the frame on top returns; the root frame returns to search
Return(run, aborted, did) ==
    [run EXCEPT !.stack = SubSeq(@, 1, Len(@) - 1),
                !.pc = IF Len(run.stack) = 1 THEN "returned" ELSE @,
                !.aborted = aborted, !.did = did]

\* is_stopped() has returned true
Observed(run) == [run EXCEPT !.observed = TRUE]

Push(run) ==
    [run EXCEPT !.position_history = Append(@, Top(run).hash)]

Pop(run) ==
    [run EXCEPT !.position_history = SubSeq(@, 1, Len(@) - 1)]

\* search: for depth in 1..=max_depth { state.nodes = 0;
\* state.root_best_move = None; negamax(board, state, depth, 0, ..., true)
SearchFor(run) ==
    IF run.depth = run.max_depth
    THEN [run EXCEPT !.pc = "done", !.did = {}]
    ELSE [run EXCEPT !.depth = @ + 1, !.pc = "called",
                     !.stack = <<Frame("negamax", run.depth + 1, 0,
                                       run.board, TRUE)>>,
                     !.aborted = FALSE, !.did = {"root_best_move"}]

FrameSearchFor ==
    /\ search_run.pc = "for"
    /\ search_run' = SearchFor(search_run)
    /\ UNCHANGED <<ttVars, mgVars, hashVars, perftVars, abVars, uciVars>>

\* search, after negamax has returned: if state.is_stopped() { ... break }
\* best_score = score; best_move = root_best_move; the soft limit and the
\* mate exit end the loop
SearchCalled(run, last) ==
    IF run.stop
    THEN [Observed(run) EXCEPT !.pc = "done", !.did = {}]
    ELSE [run EXCEPT !.pc = IF last THEN "done" ELSE "for",
                     !.did = {"best_score", "best_move"}]

FrameSearchCalled ==
    /\ search_run.pc = "returned"
    /\ \E last \in BOOLEAN : search_run' = SearchCalled(search_run, last)
    /\ UNCHANGED <<ttVars, mgVars, hashVars, perftVars, abVars, uciVars>>

\* negamax: state.nodes += 1; check_time() every 2,048 nodes, which sets
\* the flag when the limit has passed (fired); if state.is_stopped()
\* { return 0; }
Entered(run, fired) ==
    IF run.stop \/ fired
    THEN Return(Observed([run EXCEPT !.stop = TRUE]), TRUE, {})
    ELSE Goto(run, "status", {})

FrameEnter ==
    /\ At(search_run, "negamax", "enter")
    /\ \E fired \in BOOLEAN : search_run' = Entered(search_run, fired)
    /\ UNCHANGED <<ttVars, mgVars, hashVars, perftVars, abVars, uciVars>>

Repeated(run) ==
    /\ Top(run).ply > 0
    /\ \E i \in DOMAIN run.position_history :
          run.position_history[i] = Top(run).hash

\* what the node can be, in the order of the tests: checkmate or stalemate,
\* a repetition, a leaf (return quiescence(...): the frame goes on as a
\* frame of quiescence), a cutoff by the table or the tablebase, or a node
\* to search
EarlyOutcomes(run) ==
    {"terminal"} \cup
    (IF Repeated(run) THEN {"repetition"}
     ELSE IF Top(run).depth = 0 THEN {"leaf"}
     ELSE {"cutoff", "search"})

Early(run, outcome) ==
    IF outcome = "leaf"
    THEN [run EXCEPT !.stack[Len(run.stack)].fn = "quiescence",
                     !.stack[Len(run.stack)].pc = "enter", !.did = {}]
    ELSE IF outcome = "search" THEN Goto(run, "null", {})
    ELSE Return(run, FALSE, {})

FrameEarly ==
    /\ At(search_run, "negamax", "status")
    /\ \E outcome \in EarlyOutcomes(search_run) :
          search_run' = Early(search_run, outcome)
    /\ UNCHANGED <<ttVars, mgVars, hashVars, perftVars, abVars, uciVars>>

\* the null-move search: if can_null && !in_check && depth >= 3 && ply > 0
\* and the side has a piece: push(hash); negamax(null_board, depth - 3,
\* ply + 1, ..., false)
NullMove(run, pruning, null_board) ==
    IF /\ Top(run).can_null
       /\ Top(run).depth >= 3
       /\ Top(run).ply > 0
       /\ pruning
    THEN Call(Push(run), "null_ret",
              Frame("negamax", Top(run).depth - 3, Top(run).ply + 1,
                    null_board, FALSE), {})
    ELSE Goto(run, "order", {})

FrameNullMove ==
    /\ At(search_run, "negamax", "null")
    /\ \E pruning \in BOOLEAN, null_board \in FrameHashes :
          search_run' = NullMove(search_run, pruning, null_board)
    /\ UNCHANGED <<ttVars, mgVars, hashVars, perftVars, abVars, uciVars>>

\* after the null-move search: pop(); if state.is_stopped() { return 0; }
\* if score >= beta { return beta; }
NullReturned(run, cutoff) ==
    IF run.stop THEN Return(Observed(Pop(run)), TRUE, {})
    ELSE IF cutoff THEN Return(Pop(run), FALSE, {"score >= beta"})
    ELSE Goto(Pop(run), "order", {"score >= beta"})

FrameNullReturned ==
    /\ At(search_run, "negamax", "null_ret")
    /\ \E cutoff \in BOOLEAN :
          search_run' = NullReturned(search_run, cutoff)
    /\ UNCHANGED <<ttVars, mgVars, hashVars, perftVars, abVars, uciVars>>

\* order_moves; if moves.is_empty() { return 0; } push(hash)
Ordered(run, empty) ==
    IF empty THEN Return(run, FALSE, {})
    ELSE Goto(Push(run), "loop", {})

FrameOrdered ==
    /\ At(search_run, "negamax", "order")
    /\ \E empty \in BOOLEAN : search_run' = Ordered(search_run, empty)
    /\ UNCHANGED <<ttVars, mgVars, hashVars, perftVars, abVars, uciVars>>

\* one move of the loop: make_move_new, then the reduced search of a late
\* quiet move (move_num >= 3 && depth >= 3 && ...) or the full search
Move(run, quiet, new_board) ==
    IF Top(run).move_num >= 3 /\ Top(run).depth >= 3 /\ quiet
    THEN Call(run, "lmr_ret",
              Frame("negamax", Top(run).depth - 2, Top(run).ply + 1,
                    new_board, TRUE), {})
    ELSE Call(run, "move_ret",
              Frame("negamax", Top(run).depth - 1, Top(run).ply + 1,
                    new_board, TRUE), {})

FrameMove ==
    /\ At(search_run, "negamax", "loop")
    /\ \E quiet \in BOOLEAN, new_board \in FrameHashes :
          search_run' = Move(search_run, quiet, new_board)
    /\ UNCHANGED <<ttVars, mgVars, hashVars, perftVars, abVars, uciVars>>

\* after the reduced search: if reduced > alpha { score = -negamax(new_board,
\* depth - 1, ...) } else { score = reduced }
Reduced(run, above) ==
    IF above
    THEN Call(run, "move_ret",
              Frame("negamax", Top(run).depth - 1, Top(run).ply + 1,
                    Top(run).child, TRUE), {"reduced > alpha"})
    ELSE Goto(run, "move_ret", {"reduced > alpha"})

FrameReduced ==
    /\ At(search_run, "negamax", "lmr_ret")
    /\ \E above \in BOOLEAN : search_run' = Reduced(search_run, above)
    /\ UNCHANGED <<ttVars, mgVars, hashVars, perftVars, abVars, uciVars>>

\* what the score of a move can do: nothing, raise best_score only, raise
\* alpha as well, or reach beta with a quiet move or with a capture
MoveOutcomes == {"worse", "best", "alpha", "quiet cutoff", "capture cutoff"}

\* the updates of a move that was searched to the end
Updates(run, outcome) ==
    {"score > best_score", "score > alpha", "alpha >= beta"} \cup
    (IF outcome # "worse" /\ Top(run).ply = 0
     THEN {"root_best_move"} ELSE {}) \cup
    (IF outcome = "quiet cutoff" THEN {"killers", "history"} ELSE {})

\* the loop is left: pop(); state.tt.store(...); best_score
Finished(run, did) == Return(Pop(run), FALSE, did \cup {"tt.store"})

\* the loop goes on with the next move
NextMove(run, did) ==
    [Goto(run, "loop", did) EXCEPT
        !.stack[Len(run.stack)].move_num = @ + 1]

Searched(run, outcome, more) ==
    IF \/ outcome \in {"quiet cutoff", "capture cutoff"}
       \/ ~more
       \/ Top(run).move_num + 1 >= MaxFrameMoves
    THEN Finished(run, Updates(run, outcome))
    ELSE NextMove(run, Updates(run, outcome))

\* MoveReturned, but the stop path returns without the pop
MoveReturned_stop_without_pop(run, outcome, more) ==
    IF run.stop THEN Return(Observed(run), TRUE, {})
    ELSE Searched(run, outcome, more)

\* MoveReturned, but the flag is tested after the updates
MoveReturned_stop_after_updates(run, outcome, more) ==
    IF run.stop
    THEN Return(Observed(Pop(run)), TRUE, Updates(run, outcome))
    ELSE Searched(run, outcome, more)

\* after the search of a move: if state.is_stopped() { pop(); return
\* best_score; } then the updates, the cutoff and the end of the loop
MoveReturned(run, outcome, more) ==
    IF run.stop THEN Return(Observed(Pop(run)), TRUE, {})
    ELSE Searched(run, outcome, more)

FrameMoveReturned ==
    /\ At(search_run, "negamax", "move_ret")
    /\ \E outcome \in MoveOutcomes, more \in BOOLEAN :
          search_run' = MoveReturned(search_run, outcome, more)
    /\ UNCHANGED <<ttVars, mgVars, hashVars, perftVars, abVars, uciVars>>

\* quiescence: state.nodes += 1; the evaluation at MAX_PLY, checkmate, the
\* stand-pat cutoff and an empty list return; otherwise the loop starts
QuiescenceEntered(run, moves) ==
    IF moves /\ Top(run).ply < MaxFramePly
    THEN Goto(run, "loop", {})
    ELSE Return(run, FALSE, {})

FrameQuiescenceEnter ==
    /\ At(search_run, "quiescence", "enter")
    /\ \E moves \in BOOLEAN :
          search_run' = QuiescenceEntered(search_run, moves)
    /\ UNCHANGED <<ttVars, mgVars, hashVars, perftVars, abVars, uciVars>>

\* one move of either loop: -quiescence(new_board, state, ply + 1, ...)
QuiescenceCall(run, new_board) ==
    Call(run, "move_ret",
         Frame("quiescence", 0, Top(run).ply + 1, new_board, FALSE), {})

FrameQuiescenceMove ==
    /\ At(search_run, "quiescence", "loop")
    /\ \E new_board \in FrameHashes :
          search_run' = QuiescenceCall(search_run, new_board)
    /\ UNCHANGED <<ttVars, mgVars, hashVars, perftVars, abVars, uciVars>>

\* after the call: if state.is_stopped() { return best_score; } then the
\* comparisons, the cutoff and the end of the loop
QuiescenceReturned(run, more) ==
    IF run.stop THEN Return(Observed(run), TRUE, {})
    ELSE IF more
    THEN Goto(run, "loop",
              {"score > best_score", "score > alpha", "alpha >= beta"})
    ELSE Return(run, FALSE,
                {"score > best_score", "score > alpha", "alpha >= beta"})

FrameQuiescenceReturned ==
    /\ At(search_run, "quiescence", "move_ret")
    /\ \E more \in BOOLEAN :
          search_run' = QuiescenceReturned(search_run, more)
    /\ UNCHANGED <<ttVars, mgVars, hashVars, perftVars, abVars, uciVars>>

\* the stop command of the main thread: stop_flag.store(true)
FrameStop ==
    /\ ~search_run.stop
    /\ search_run' = [search_run EXCEPT !.stop = TRUE]
    /\ UNCHANGED <<ttVars, mgVars, hashVars, perftVars, abVars, uciVars>>

\* the next go, after the thread of the search has been joined
FrameGo ==
    /\ search_run.pc = "done"
    /\ search_run' = FrameStart(search_run.given, search_run.board,
                                search_run.max_depth)
    /\ UNCHANGED <<ttVars, mgVars, hashVars, perftVars, abVars, uciVars>>

NextFrames ==
    \/ FrameSearchFor
    \/ FrameSearchCalled
    \/ FrameEnter
    \/ FrameEarly
    \/ FrameNullMove
    \/ FrameNullReturned
    \/ FrameOrdered
    \/ FrameMove
    \/ FrameReduced
    \/ FrameMoveReturned
    \/ FrameQuiescenceEnter
    \/ FrameQuiescenceMove
    \/ FrameQuiescenceReturned
    \/ FrameStop
    \/ FrameGo

SpecFrames == InitFrames /\ [][NextFrames]_vars

\* a negamax frame between its push and its pop: inside its null-move
\* search or its move loop
Inside(f) ==
    /\ f.fn = "negamax"
    /\ f.pc \in {"null_ret", "loop", "lmr_ret", "move_ret"}

RECURSIVE InsideHashes(_)
InsideHashes(stack) ==
    IF stack = <<>> THEN <<>>
    ELSE IF Inside(Head(stack))
    THEN <<Head(stack).hash>> \o InsideHashes(Tail(stack))
    ELSE InsideHashes(Tail(stack))

\* C29: position-history stack discipline: at any moment the vector is the
\* history given at search start followed by one hash per negamax frame that
\* is inside its null-move search or its move loop, in the order of the
\* frames, so that every push is popped by the frame that made it before it
\* returns, on the stop paths as well; when search returns the vector equals
\* the one it was given.
C29_StackDiscipline ==
    search_run # <<>> =>
        /\ search_run.position_history =
              search_run.given \o InsideHashes(search_run.stack)
        /\ search_run.pc \in {"returned", "done", "for"} =>
              search_run.position_history = search_run.given

\* a frame at ply 1 has just got back its null-move search, which a frame
\* below it left on seeing the flag: two hashes are on top of the given
\* history
C29_Witness ==
    /\ search_run # <<>>
    /\ search_run.observed
    /\ search_run.aborted
    /\ At(search_run, "negamax", "null_ret")
    /\ search_run.given # <<>>
    /\ Len(search_run.position_history) = Len(search_run.given) + 2

\* what a step may not do once a frame has seen the flag: compare, store or
\* commit a score
C30_Original ==
    search_run # <<>> =>
        (search_run.observed => search_run.stop /\ search_run.did = {})

\* C30: once any search frame has observed the stop flag set, the flag stays
\* set until search returns and, for the rest of that search, no
\* transposition-table store, no killer or history update and no change of
\* root_best_move takes place: a score returned by an aborted subtree is
\* never stored or committed, and the only comparison made with it is the
\* test reduced > alpha of a late-move reduction.
C30_NothingCommittedAfterStop ==
    search_run # <<>> =>
        (search_run.observed =>
            /\ search_run.stop
            /\ search_run.did \subseteq {"reduced > alpha"})

\* a reduced search was left on seeing the flag and its score has been
\* compared with alpha
C30_Witness ==
    /\ search_run # <<>>
    /\ search_run.observed
    /\ search_run.aborted
    /\ search_run.did = {"reduced > alpha"}
    /\ At(search_run, "negamax", "move_ret")

\* ------------------------------------------------------------------------
\* The paths of a search: from the root, one call of negamax after the
\* other, by a move of the loop (searched one or, reduced, two plies
\* shallower) or by the null move, on the boards themselves
\* ------------------------------------------------------------------------

\* White: Kh1, Nh4, which gives check from g6; Black: Kh8, Na8
FenKnights ==
    [placement |-> <<"n", "6", "k", "/", "8", "/", "8", "/", "8", "/", "7", "N", "/", "8", "/", "8", "/", "7", "K">>,
     side |-> <<"w">>, castling |-> <<"-">>, ep |-> <<"-">>, halfmove |-> 0]

PathFens == {FenKnights, FenKingPawn, FenPawnCheck}
MaxPathDepth == 8
MaxPathPly == 4
\* the depths of the root: too shallow for a null move, deep enough for one,
\* and deep enough for a null move below a null move
PathRootDepths == {1, 4, MaxPathDepth}

\* a call of negamax: its arguments, the kind of move that led to it and the
\* call it was made from
PathNode(board, depth, ply, can_null, last, from) ==
    [board |-> board, depth |-> depth, ply |-> ply, can_null |-> can_null,
     last |-> last, from |-> from]

\* search: negamax(board, state, depth, 0, -SCORE_INFINITY, SCORE_INFINITY,
\* true)
InitPath ==
    /\ \E f \in PathFens, depth \in PathRootDepths :
          ab_run = PathNode(from_str(f), depth, 0, TRUE, "root", <<>>)
    /\ TTParked /\ MGParked /\ HashParked /\ PerftParked
    /\ SearchParked /\ UciParked

\* the node gets as far as the null move and the move loop: it is neither
\* checkmate nor stalemate and not a leaf
PathSearched(node) ==
    /\ node.ply < MaxPathPly
    /\ status(node.board) = "Ongoing"
    /\ node.depth > 0

\* what the next call keeps of the call it is made from
PathFrom(node) == [node EXCEPT !.from = <<>>]

\* the null-move search: negamax(null_board, state, depth - 3, ply + 1,
\* -beta, -beta + 1, false)
PathNull ==
    /\ PathSearched(ab_run)
    /\ NullMoveTried(ab_run.board, ab_run.depth, ab_run.ply, ab_run.can_null)
    /\ ab_run' = PathNode(null_move(ab_run.board), ab_run.depth - 3,
                          ab_run.ply + 1, FALSE, "null", PathFrom(ab_run))
    /\ UNCHANGED <<ttVars, mgVars, hashVars, perftVars, searchVars, uciVars>>

\* the depth a move of the loop is searched to: depth - 1, or depth - 2 for
\* a reduced late move, which needs depth >= 3
PathDepths(depth) == {depth - 1} \cup (IF depth >= 3 THEN {depth - 2} ELSE {})

\* a move of the loop: negamax(new_board, state, depth - 1 or depth - 2,
\* ply + 1, ..., true)
PathMove ==
    /\ PathSearched(ab_run)
    /\ \E mv \in Range(LegalMoves(ab_run.board)),
          depth \in PathDepths(ab_run.depth) :
          ab_run' = PathNode(make_move_new(ab_run.board, mv), depth,
                             ab_run.ply + 1, TRUE, "move", PathFrom(ab_run))
    /\ UNCHANGED <<ttVars, mgVars, hashVars, perftVars, searchVars, uciVars>>

NextPath == PathNull \/ PathMove

SpecPath == InitPath /\ [][NextPath]_vars

\* the side to move has a knight, bishop, rook or queen
HasPiece(b) ==
    \E sq \in b.colors[b.side_to_move] :
        piece_on(b, sq) \in {Knight, Bishop, Rook, Queen}

\* C31: a null move is tried at a node only if can_null is true, the side to
\* move is not in check, depth >= 3, ply > 0 and the side to move has a piece
\* other than pawns and king; the node reached by a null move is searched
\* with can_null = false, so two null moves are never made consecutively on
\* a search path, and the reduced depth (depth - 3) never goes below 0.
C31_NullMoveConditions ==
    (ab_run # <<>> /\ ab_run.last = "null") =>
        /\ ab_run.from.can_null
        /\ ~is_king_attacked(ab_run.from.board, ab_run.from.board.side_to_move)
        /\ ab_run.from.depth >= 3
        /\ ab_run.from.ply > 0
        /\ HasPiece(ab_run.from.board)
        /\ ~ab_run.can_null
        /\ ab_run.from.last # "null"
        /\ ab_run.depth = ab_run.from.depth - 3
        /\ ab_run.depth >= 0

\* a null move at ply 2 of a path whose ply 1 was reached by a move: the
\* side that passed has a knight, and the node after it may not pass
C31_Witness ==
    /\ ab_run # <<>>
    /\ ab_run.last = "null"
    /\ ab_run.ply = 3
    /\ ab_run.from.last = "move"
    /\ ab_run.from.board.side_to_move = White
    /\ ab_run.board.side_to_move = Black
    /\ HasNonPawnMaterial(ab_run.board)
    /\ ab_run.board.checkers = EMPTY
    /\ ab_run.depth >= 3

\* ------------------------------------------------------------------------
\* make_move_new and null_move, one step at a time: the board before each
\* step is kept beside the board after it
\* ------------------------------------------------------------------------

\* 4k3/8/8/8/3p4/8/8/4K3 b - e3 0 1: an en-passant square with no pawn in
\* front of it
FenEpWithoutPawn ==
    [placement |-> <<"4", "k", "3", "/", "8", "/", "8", "/", "8", "/", "3", "p", "4", "/", "8", "/", "8", "/", "4", "K", "3">>,
     side |-> <<"b">>, castling |-> <<"-">>, ep |-> <<"e", "3">>, halfmove |-> 0]

\* 7k/8/8/8/8/8/P7/K7 w - - 254 1
FenClock254 == [FenKingPawn EXCEPT !.halfmove = 254]

StepFens ==
    {StartFen, KiwipeteFen, SmallEnPassantFen, FenBishopToEp,
     FenEpWithoutPawn, FenRightsWithoutRooks, FenClock254}
MaxSteps == 2

InitSteps ==
    /\ hash_board \in {from_str(f) : f \in StepFens}
    /\ hash_walk = <<>>
    /\ TTParked /\ MGParked /\ PerftParked /\ EngineParked

\* the plies played since the last capture or pawn move, counted from the
\* value the FEN gave
PliesSince(root, steps) ==
    IF steps = <<>> THEN root.halfmove_clock ELSE steps[Len(steps)].since

\* the first board of the walk
RootOf(board, steps) == IF steps = <<>> THEN board ELSE steps[1].before

\* the move takes a pawn or captures: the piece on the source square is a
\* pawn, or the other side has fewer pieces after it
PawnMoveOrCapture(before, mv, after) ==
    \/ get_source(mv) \in before.pieces[Pawn]
    \/ after.colors[NotColor(before.side_to_move)]
          # before.colors[NotColor(before.side_to_move)]

\* self.halfmove_clock + 1 overflows the u8: the addition panics in a build
\* with overflow checks and wraps in one without
ClockOverflows(before, mv) ==
    /\ before.halfmove_clock = 255
    /\ ~PawnMoveOrCapture(before, mv, make_move_new(before, mv))

MoveResults(before, mv) ==
    {make_move_new(before, mv)} \cup
    (IF ClockOverflows(before, mv) THEN {[panic |-> TRUE]} ELSE {})

Stepped(before, steps, mv, after) ==
    Append(steps,
           [before |-> before, mv |-> mv,
            since |-> IF mv = NoMove THEN PliesSince(before, steps)
                      ELSE IF PawnMoveOrCapture(before, mv, after) THEN 0
                      ELSE PliesSince(before, steps) + 1])

Walking ==
    /\ Len(hash_walk) < MaxSteps
    /\ "panic" \notin DOMAIN hash_board

\* board.make_move_new(mv) for a legal move
StepMove ==
    /\ Walking
    /\ \E mv \in Range(LegalMoves(hash_board)) :
       \E after \in MoveResults(hash_board, mv) :
          /\ hash_board' = after
          /\ hash_walk' = Stepped(hash_board, hash_walk, mv,
                                  make_move_new(hash_board, mv))
    /\ UNCHANGED <<ttVars, mgVars, perftVars, engineVars>>

\* board.null_move() where it returns a board
StepNull ==
    /\ Walking
    /\ null_move(hash_board) # [none |-> TRUE]
    /\ hash_board' = null_move(hash_board)
    /\ hash_walk' = Stepped(hash_board, hash_walk, NoMove,
                            null_move(hash_board))
    /\ UNCHANGED <<ttVars, mgVars, perftVars, engineVars>>

NextSteps == StepMove \/ StepNull

SpecSteps == InitSteps /\ [][NextSteps]_vars

\* a step has been made and has returned a board
StepMade ==
    /\ hash_board # <<>>
    /\ hash_walk # <<>>
    /\ "panic" \notin DOMAIN hash_board

LastStep == hash_walk[Len(hash_walk)]

\* the move takes a pawn two ranks up or down its file
DoublePush(before, mv) ==
    /\ mv # NoMove
    /\ get_source(mv) \in before.pieces[Pawn]
    /\ get_dest(mv) \in {get_source(mv) + 16, get_source(mv) - 16}

\* the move is an en-passant capture: a pawn goes to an empty square of
\* another file
EnPassantCapture(before, mv) ==
    /\ mv # NoMove
    /\ get_source(mv) \in before.pieces[Pawn]
    /\ get_dest(mv) \notin combined(before)
    /\ get_dest(mv) % 8 # get_source(mv) % 8

\* the square one rank behind the destination, seen from the capturing side
BehindOf(before, mv) ==
    IF before.side_to_move = White THEN get_dest(mv) - 8
    ELSE get_dest(mv) + 8

\* the capture takes the enemy pawn behind the destination, moves the pawn
\* and changes nothing else
RemovesPawnBehind(before, mv, after) ==
    LET us == before.side_to_move
        them == NotColor(us)
        behind == BehindOf(before, mv)
    IN  /\ behind \in before.pieces[Pawn] \cap before.colors[them]
        /\ after.colors[them] = before.colors[them] \ {behind}
        /\ after.colors[us] =
              (before.colors[us] \ {get_source(mv)}) \cup {get_dest(mv)}
        /\ after.pieces[Pawn] =
              (before.pieces[Pawn] \ {get_source(mv), behind})
                 \cup {get_dest(mv)}
        /\ \A p \in {Knight, Bishop, Rook, Queen, King} :
              after.pieces[p] = before.pieces[p]

\* the en-passant square after a step
EpSquareAfter(before, mv, after) ==
    IF DoublePush(before, mv)
    THEN after.ep_square = (get_source(mv) + get_dest(mv)) \div 2
    ELSE after.ep_square = NoSquare

\* an en-passant capture is among the legal moves of the board
EnPassantGenerated(board) ==
    \E mv \in Range(LegalMoves(board)) : EnPassantCapture(board, mv)

\* the board given by the FEN stands after a double push: the pawn that
\* made it is one rank beyond the en-passant square
AfterDoublePush(root) ==
    /\ root.ep_square # NoSquare
    /\ (IF root.side_to_move = White THEN root.ep_square - 8
        ELSE root.ep_square + 8)
          \in root.pieces[Pawn] \cap root.colors[NotColor(root.side_to_move)]

\* C32: en-passant lifecycle: after make_move_new(m) the EP square is set if
\* and only if m moves a pawn two ranks, and it is then the square that pawn
\* passed over; every other move, and null_move, leaves the EP square empty,
\* so an en-passant capture can be generated only on the ply immediately
\* after the double push.  An en-passant capture removes exactly the enemy
\* pawn one rank behind the destination.
C32_EnPassantLifecycle ==
    /\ StepMade =>
          /\ EpSquareAfter(LastStep.before, LastStep.mv, hash_board)
          /\ EnPassantGenerated(hash_board)
                => DoublePush(LastStep.before, LastStep.mv)
          /\ EnPassantCapture(LastStep.before, LastStep.mv)
                => RemovesPawnBehind(LastStep.before, LastStep.mv, hash_board)
    /\ (hash_board # <<>> /\ hash_walk = <<>>) =>
          (EnPassantGenerated(hash_board) => AfterDoublePush(hash_board))

\* the same on the walks that start from a board without en-passant square
\* or with one that has the pawn in front of it
EnPassantLifecycleFromSound ==
    (/\ hash_board # <<>>
     /\ LET root == RootOf(hash_board, hash_walk)
        IN  root.ep_square # NoSquare => AfterDoublePush(root))
        => C32_EnPassantLifecycle

\* the rights a move clears by touching a square: both of a side on the
\* king's square, one on a rook's corner
ClearedBy(sq) ==
    CASE sq = 4  -> {WK, WQ}
      [] sq = 0  -> {WQ}
      [] sq = 7  -> {WK}
      [] sq = 60 -> {BK, BQ}
      [] sq = 56 -> {BQ}
      [] sq = 63 -> {BK}
      [] OTHER   -> {}

\* the rights after a step: a move clears what its two squares clear and
\* nothing else, a null move nothing
RightsAfter(before, mv, after) ==
    IF mv = NoMove THEN after.castling = before.castling
    ELSE after.castling =
            (before.castling \ ClearedBy(get_source(mv)))
               \ ClearedBy(get_dest(mv))

\* the king goes from the e-file to the g- or c-file
KingToWing(before, mv) ==
    /\ mv # NoMove
    /\ get_source(mv) \in before.pieces[King]
    /\ get_source(mv) % 8 = 4
    /\ get_dest(mv) % 8 \in {6, 2}

\* the rook of the king's rank goes from the corner of that wing to the
\* square the king passed over, and nothing else changes but the king
RookMoved(before, mv, after) ==
    LET us == before.side_to_move
        a == get_source(mv) - 4
        corner == IF get_dest(mv) % 8 = 6 THEN a + 7 ELSE a
        to == IF get_dest(mv) % 8 = 6 THEN a + 5 ELSE a + 3
    IN  /\ corner \in before.pieces[Rook] \cap before.colors[us]
        /\ after.pieces[Rook] = (before.pieces[Rook] \ {corner}) \cup {to}
        /\ after.colors[us] =
              (before.colors[us] \ {get_source(mv), corner})
                 \cup {get_dest(mv), to}
        /\ after.colors[NotColor(us)] = before.colors[NotColor(us)]

\* C33: make_move_new changes castling rights only by clearing bits: a move
\* from or to e1 clears both white bits, from or to a1 or h1 clears white
\* queenside or kingside, and likewise e8, a8, h8 for black; a move touching
\* none of these six squares leaves the rights unchanged and no move or null
\* move ever sets a bit.  A king move from the e-file to the g- or c-file
\* also moves the rook of the same rank from the h- or a-corner to the f- or
\* d-file.
C33_CastlingRightsAndRook ==
    StepMade =>
        /\ RightsAfter(LastStep.before, LastStep.mv, hash_board)
        /\ hash_board.castling \subseteq LastStep.before.castling
        /\ KingToWing(LastStep.before, LastStep.mv)
              => RookMoved(LastStep.before, LastStep.mv, hash_board)

\* the king and rook of every right of the first board are on their squares
RightsInPlace(root) ==
    /\ WK \in root.castling => RightInPlace(root, White, 4, 7)
    /\ WQ \in root.castling => RightInPlace(root, White, 4, 0)
    /\ BK \in root.castling => RightInPlace(root, Black, 60, 63)
    /\ BQ \in root.castling => RightInPlace(root, Black, 60, 56)

\* the same on the walks that start from a board whose rights agree with
\* its placement
CastlingRightsAndRookFromSound ==
    (hash_board # <<>> /\ RightsInPlace(RootOf(hash_board, hash_walk)))
        => C33_CastlingRightsAndRook

\* C37: the half-move clock of a board always equals the number of plies
\* played since the last capture or pawn move (counted from the value given
\* in the FEN): make_move_new resets it to 0 on a pawn move or capture and
\* otherwise increases it by exactly 1, without overflow or wrap-around for
\* any number of consecutive quiet moves.
C37_HalfmoveClock ==
    hash_board # <<>> =>
        /\ "panic" \notin DOMAIN hash_board
        /\ hash_board.halfmove_clock = PliesSince(hash_board, hash_walk)

\* the same as long as the count stays within the u8
HalfmoveClockBelow256 ==
    (/\ hash_board # <<>>
     /\ hash_walk # <<>>
     /\ LastStep.before.halfmove_clock < 255)
        => C37_HalfmoveClock

\* ------------------------------------------------------------------------
\* Killers and history at a beta cutoff (search.rs 279-280, 316-347)
\* ------------------------------------------------------------------------

\* the position of FenBishopToEp after e2e4: Black to move, en-passant
\* square e3, which the bishop on h6 and the pawn on d4 can both move to
AfterE2E4 == make_move_new(from_str(FenBishopToEp), ChessMoveNew(12, 28, NoPiece))

CutoffBoards ==
    {AfterE2E4} \cup {from_str(f) : f \in {SmallCaptureFen, FenKnights}}

MaxCutoffs == 2
MaxCutoffDepth == 1
CutoffPlies == {1, MAX_PLY - 1}
\* the depths the cutoff block is run at without a search below it
CutoffBlockDepths == {16, 255}
\* a full window, one every move exceeds, and a null window at 0
CutoffWindows ==
    {<<-SCORE_INFINITY, SCORE_INFINITY>>, <<-SCORE_INFINITY, -SCORE_MATE>>,
     <<0, 1>>}

\* the best moves a table entry of the node can hold: none, the first and
\* the last move of the generator, the moves onto the en-passant square
CutoffHashMoves(b) ==
    {NoMove} \cup {mv \in Range(LegalMoves(b)) : get_dest(mv) = b.ep_square}
        \cup (IF LegalMoves(b) = <<>> THEN {}
              ELSE {LegalMoves(b)[1], LegalMoves(b)[Len(LegalMoves(b))]})

\* a history table with the cell of every legal move of the board at value
CutoffHistory(b, value) ==
    [c \in {<<piece_to_index(piece_on(b, get_source(mv))), get_dest(mv)>> :
                mv \in Range(LegalMoves(b))} |-> value]

\* a run: the board and the ply of its nodes, the killers and the history
\* the calls share
CutoffStart(b, ply, history) ==
    [board |-> b, ply |-> ply, killers |-> <<>>, history |-> history,
     cutoffs |-> 0, last |-> <<>>]

CutoffHistories(b) == {<<>>, CutoffHistory(b, HISTORY_MAX - 1)}

InitCutoff ==
    /\ ab_run \in UNION {{CutoffStart(b, ply, h) :
                                ply \in CutoffPlies, h \in CutoffHistories(b)} :
                            b \in CutoffBoards}
    /\ TTParked /\ MGParked /\ HashParked /\ PerftParked /\ SearchParked
    /\ UciParked

\* the SearchState of a call: the killers and the history of the run and a
\* table whose only entry gives the best move of the node
CutoffState(run, hash_move) ==
    [SearchStateNew EXCEPT
        !.killers = run.killers, !.history = run.history,
        !.tt = IF hash_move = NoMove THEN @
               ELSE store(@, run.board.hash, 0, 0, "Exact", hash_move, 0)]

\* the entry the node stored when it returned: its flag is LowerBound
\* exactly when a move of the loop reached beta, and its best move is
\* then that move
CutoffMove(board, st) ==
    IF probe(st.tt, board.hash) # <<>>
       /\ probe(st.tt, board.hash)[1].flag = "LowerBound"
    THEN <<probe(st.tt, board.hash)[1].best_move>>
    ELSE <<>>

\* what a call left, beside what it found; children says whether nodes
\* of negamax were searched below the node
CutoffDone(run, kind, children, st, cut) ==
    [run EXCEPT
        !.killers = st.killers, !.history = st.history,
        !.cutoffs = @ + 1,
        !.last = <<[kind |-> kind, children |-> children, cut |-> cut,
                    killers |-> run.killers, history |-> run.history]>>]

CutoffSearched(run, depth, r) ==
    CutoffDone(run, "search", depth > 1, r.st, CutoffMove(run.board, r.st))

\* negamax on the board of the run, with the killers and history it has
CutoffSearch ==
    /\ ab_run.cutoffs < MaxCutoffs
    /\ \E depth \in 1 .. MaxCutoffDepth, window \in CutoffWindows,
          hash_move \in CutoffHashMoves(ab_run.board) :
            ab_run' = CutoffSearched(ab_run, depth,
                        negamax(ab_run.board, CutoffState(ab_run, hash_move),
                                depth, ab_run.ply, window[1], window[2], TRUE))
    /\ UNCHANGED <<ttVars, mgVars, hashVars, perftVars, searchVars, uciVars>>

CutoffBlocked(run, mv, acc) == CutoffDone(run, "block", FALSE, acc.st, <<mv>>)

\* the cutoff block of the move loop alone, for a move whose score has
\* reached beta at a depth too large to search
CutoffBlock ==
    /\ ab_run.cutoffs < MaxCutoffs
    /\ \E depth \in CutoffBlockDepths,
          mv \in CutoffHashMoves(ab_run.board) \ {NoMove} :
            ab_run' = CutoffBlocked(ab_run, mv,
                        NegamaxCutoff(ab_run.board, mv,
                            is_capture(ab_run.board, mv), depth, ab_run.ply, 0,
                            [st |-> CutoffState(ab_run, NoMove), alpha |-> 0,
                             best_score |-> 0, best_move |-> mv,
                             done |-> FALSE, stopped |-> FALSE]))
    /\ UNCHANGED <<ttVars, mgVars, hashVars, perftVars, searchVars, uciVars>>

NextCutoff == CutoffSearch \/ CutoffBlock

SpecCutoff == InitCutoff /\ [][NextCutoff]_vars

CutoffRan == ab_run # <<>> /\ "cutoffs" \in DOMAIN ab_run /\ ab_run.last # <<>>

HistoryInRange(history) ==
    \A c \in DOMAIN history : history[c] \in 0 .. HISTORY_MAX

\* the call changed the killers of its ply, or (a call whose children are
\* all quiescence nodes, or the block alone) the history table
CutoffWrote(run, call) ==
    \/ KillersAt(run, run.ply) # KillersAt(call, run.ply)
    \/ /\ ~call.children
       /\ \E c \in DOMAIN run.history :
            run.history[c] # HistoryAt(call.history, c[1], c[2])

KillersShifted(run, call) ==
    KillersAt(run, run.ply) = <<call.cut[1], KillersAt(call, run.ply)[1]>>

\* C34 (search.rs 326-345): after any sequence of beta cutoffs every
\* history value lies in 0..HISTORY_MAX; the killers and the history are
\* written only by a cutoff of a move that is not a capture; and on such a
\* cutoff killer slot 1 receives the old slot 0 and slot 0 the cutoff move.
C34_KillersAndHistory ==
    CutoffRan =>
        /\ HistoryInRange(ab_run.history)
        /\ CutoffWrote(ab_run, ab_run.last[1]) =>
            /\ ab_run.last[1].cut # <<>>
            /\ ~IsCapture(ab_run.board, ab_run.last[1].cut[1])
        /\ (/\ ab_run.last[1].cut # <<>>
            /\ ~IsCapture(ab_run.board, ab_run.last[1].cut[1])) =>
                KillersShifted(ab_run, ab_run.last[1])

\* the same with the test the code makes in place of "not a capture": the
\* destination is empty and is not the en-passant square
KillersAndHistoryByDestination ==
    CutoffRan =>
        /\ HistoryInRange(ab_run.history)
        /\ CutoffWrote(ab_run, ab_run.last[1]) =>
            /\ ab_run.last[1].cut # <<>>
            /\ ~is_capture(ab_run.board, ab_run.last[1].cut[1])
        /\ (/\ ab_run.last[1].cut # <<>>
            /\ ~is_capture(ab_run.board, ab_run.last[1].cut[1])) =>
                KillersShifted(ab_run, ab_run.last[1])

\* a piece that is not a pawn moved onto the en-passant square, cut the
\* node off in a search, and the killers stayed as they were
QuietCutoffNotRecorded ==
    /\ CutoffRan
    /\ ab_run.last[1].kind = "search"
    /\ ab_run.last[1].cut # <<>>
    /\ ~IsCapture(ab_run.board, ab_run.last[1].cut[1])
    /\ ab_run.killers = ab_run.last[1].killers

\* a history cell was capped
HistoryCapped ==
    /\ CutoffRan
    /\ \E c \in DOMAIN ab_run.history :
        /\ ab_run.history[c] = HISTORY_MAX
        /\ HistoryAt(ab_run.last[1].history, c[1], c[2]) < HISTORY_MAX

\* ------------------------------------------------------------------------
\* extract_pv (search.rs 76-105)
\* ------------------------------------------------------------------------

\* Option<ChessMove> of an entry: entry.best_move is NoMove for None
RECURSIVE ExtractPv(_, _, _, _, _)
\* the loop without the test of seen
ExtractPv_without_seen(current_board, tt, left, pv, seen) ==
    IF left = 0 THEN [pv |-> pv, seen |-> seen]
    ELSE IF probe(tt, current_board.hash) = <<>> THEN [pv |-> pv, seen |-> seen]
    ELSE IF probe(tt, current_board.hash)[1].best_move = NoMove
    THEN [pv |-> pv, seen |-> Append(seen, current_board.hash)]
    ELSE IF ~legal(current_board, probe(tt, current_board.hash)[1].best_move)
    THEN [pv |-> pv, seen |-> Append(seen, current_board.hash)]
    ELSE ExtractPv(make_move_new(current_board,
                        probe(tt, current_board.hash)[1].best_move),
                   tt, left - 1,
                   Append(pv, probe(tt, current_board.hash)[1].best_move),
                   Append(seen, current_board.hash))

\* the turns of for _ in 0..max_moves that are left, with pv and seen
ExtractPv(current_board, tt, left, pv, seen) ==
    IF left = 0 THEN [pv |-> pv, seen |-> seen]
    ELSE IF current_board.hash \in Range(seen) THEN [pv |-> pv, seen |-> seen]
    ELSE IF probe(tt, current_board.hash) = <<>>
    THEN [pv |-> pv, seen |-> Append(seen, current_board.hash)]
    ELSE IF probe(tt, current_board.hash)[1].best_move = NoMove
    THEN [pv |-> pv, seen |-> Append(seen, current_board.hash)]
    ELSE IF ~legal(current_board, probe(tt, current_board.hash)[1].best_move)
    THEN [pv |-> pv, seen |-> Append(seen, current_board.hash)]
    ELSE ExtractPv(make_move_new(current_board,
                        probe(tt, current_board.hash)[1].best_move),
                   tt, left - 1,
                   Append(pv, probe(tt, current_board.hash)[1].best_move),
                   Append(seen, current_board.hash))

extract_pv(board, tt, max_moves) == ExtractPv(board, tt, max_moves, <<>>, <<>>)

\* the board after the first n moves of a line
RECURSIVE Replay(_, _, _)
Replay(board, line, n) ==
    IF n = 0 THEN board
    ELSE make_move_new(Replay(board, line, n - 1), line[n])

\* Nh4-f3, Na8-b6, Nf3-h4, Nb6-a8 from FenKnights: four moves that lead back
\* to the position they start from
PvCycle ==
    <<ChessMoveNew(31, 21, NoPiece), ChessMoveNew(56, 41, NoPiece),
      ChessMoveNew(21, 31, NoPiece), ChessMoveNew(41, 56, NoPiece)>>

\* the positions of the cycle, the first one first
PvBoard(k) == Replay(from_str(FenKnights), PvCycle, k - 1)

MaxPvMoves == 5

\* the best moves an entry of a position of the cycle can hold: none, a
\* move that is not legal there, the move of the cycle, the first and the
\* last move of the generator
PvBestMoves(k) ==
    {NoMove, ForeignMove, PvCycle[k], LegalMoves(PvBoard(k))[1],
     LegalMoves(PvBoard(k))[Len(LegalMoves(PvBoard(k)))]}

PvEnter(k) ==
    [board |-> PvBoard(k), tt |-> tt_new(DEFAULT_HASH_MB), written |-> {},
     max_moves |-> 0, result |-> <<>>]

InitPv ==
    /\ ab_run \in {PvEnter(k) : k \in DOMAIN PvCycle}
    /\ TTParked /\ MGParked /\ HashParked /\ PerftParked /\ SearchParked
    /\ UciParked

PvStored(run, k, mv) ==
    [run EXCEPT
        !.tt = store(@, PvBoard(k).hash, 1, 0, "Exact", mv, 0),
        !.written = @ \cup {k}]

\* a search stores an entry for a position of the cycle
PvStore ==
    /\ ab_run.result = <<>>
    /\ \E k \in DOMAIN PvCycle \ ab_run.written :
        \E mv \in PvBestMoves(k) : ab_run' = PvStored(ab_run, k, mv)
    /\ UNCHANGED <<ttVars, mgVars, hashVars, perftVars, searchVars, uciVars>>

PvCalled(run, max_moves, r) ==
    [run EXCEPT !.max_moves = max_moves, !.result = <<r>>]

\* extract_pv(board, &state.tt, max_moves)
PvCall ==
    /\ ab_run.result = <<>>
    /\ \E max_moves \in 0 .. MaxPvMoves :
        ab_run' = PvCalled(ab_run, max_moves,
                           extract_pv(ab_run.board, ab_run.tt, max_moves))
    /\ UNCHANGED <<ttVars, mgVars, hashVars, perftVars, searchVars, uciVars>>

NextPv == PvStore \/ PvCall

SpecPv == InitPv /\ [][NextPv]_vars

PvReturned ==
    ab_run # <<>> /\ "max_moves" \in DOMAIN ab_run /\ ab_run.result # <<>>

\* the hashes of the positions a line passes and leaves by a move
PvHashes(board, line) ==
    [n \in 1 .. Len(line) |-> Replay(board, line, n - 1).hash]

Distinct(seq) == \A i, j \in DOMAIN seq : i # j => seq[i] # seq[j]

PvEndsOnVisited ==
    /\ PvReturned
    /\ ab_run.result[1].pv # <<>>
    /\ Replay(ab_run.board, ab_run.result[1].pv, Len(ab_run.result[1].pv)).hash
        \in Range(ab_run.result[1].seen)

\* ------------------------------------------------------------------------
\* The index of state.killers (search.rs 19, 264, 292-293, 374-384)
\* ------------------------------------------------------------------------

\* 7k/8/8/8/8/8/8/K7 w - - 0 1
FenKings ==
    [placement |-> <<"7", "k", "/", "8", "/", "8", "/", "8", "/", "8", "/", "8", "/", "8", "/", "K", "7">>,
     side |-> <<"w">>, castling |-> <<"-">>, ep |-> <<"-">>, halfmove |-> 0]

\* A line of play from FenKings on which no position occurs twice.  The
\* white king walks the ranks 1 to 4 as a snake (a1..h1, h2..a2, a3..h3,
\* h4..a4), back again and forth again; the black king steps between h8
\* and g8 during the first walk, between h7 and g7 during the second and
\* between g8 and h8 during the third.
MaxSnake == 31
SnakeSquare(i) ==
    IF (i \div 8) % 2 = 0 THEN i ELSE (i \div 8) * 8 + 7 - (i % 8)

\* the square of the white king after m moves and of the black after n
WhiteWalk(m) ==
    SnakeSquare(IF m <= MaxSnake THEN m
                ELSE IF m <= 2 * MaxSnake THEN 2 * MaxSnake - m
                ELSE m - 2 * MaxSnake)

BlackWalk(n) ==
    IF n < MaxSnake THEN (IF n % 2 = 0 THEN 63 ELSE 62)
    ELSE IF n < 2 * MaxSnake THEN (IF (n - MaxSnake) % 2 = 0 THEN 55 ELSE 54)
    ELSE (IF n % 2 = 0 THEN 62 ELSE 63)

\* the move of the line at a ply
WalkMove(ply) ==
    IF ply % 2 = 0
    THEN ChessMoveNew(WhiteWalk(ply \div 2), WhiteWalk(ply \div 2 + 1), NoPiece)
    ELSE ChessMoveNew(BlackWalk(ply \div 2), BlackWalk(ply \div 2 + 1), NoPiece)

\* the last ply the line has a move for
MaxWalkPly == 6 * MaxSnake - 2

\* go depth n: the depths search is given
KillerRootDepths == {1, 4, MAX_PLY, MAX_PLY + 1}

\* a call of negamax or quiescence on the line: its arguments, the hashes
\* in position_history, the index of killers it has used and whether that
\* index was outside the array (the call panics)
KillerNode(fn, board, depth, ply, history) ==
    [fn |-> fn, board |-> board, depth |-> depth, ply |-> ply,
     history |-> history, index |-> <<>>, panic |-> FALSE, returned |-> FALSE]

InitKillers ==
    /\ ab_run \in {KillerNode("negamax", from_str(FenKings), depth, 0, <<>>) :
                        depth \in KillerRootDepths}
    /\ TTParked /\ MGParked /\ HashParked /\ PerftParked /\ SearchParked
    /\ UciParked

KillerRuns(fn) ==
    /\ ab_run.fn = fn
    /\ ~ab_run.returned

\* negamax up to the return of a position that is checkmate, stalemate or
\* a repetition
KillerEarlyReturn(node) ==
    \/ status(node.board) # "Ongoing"
    \/ node.ply > 0 /\ node.board.hash \in Range(node.history)

KillerReturned(node) == [node EXCEPT !.returned = TRUE]

\* state.killers[ply] with ply as index: past the end of the array the
\* access panics
KillerIndexed(node) ==
    [node EXCEPT !.index = <<node.ply>>,
                 !.panic = node.ply >= MAX_PLY,
                 !.returned = node.ply >= MAX_PLY]

KillerChild(node, fn, mv, depth) ==
    KillerNode(fn, make_move_new(node.board, mv), depth, node.ply + 1,
               Append(node.history, node.board.hash))

\* negamax returns before the move loop: the position is over or repeated,
\* or the table entry of the position gives the score
KillersReturn ==
    /\ KillerRuns("negamax")
    /\ ab_run.index = <<>>
    /\ ab_run' = KillerReturned(ab_run)
    /\ UNCHANGED <<ttVars, mgVars, hashVars, perftVars, searchVars, uciVars>>

\* depth == 0: quiescence(board, state, ply, alpha, beta)
KillersLeaf ==
    /\ KillerRuns("negamax")
    /\ ~KillerEarlyReturn(ab_run)
    /\ ab_run.depth = 0
    /\ ab_run' = [ab_run EXCEPT !.fn = "quiescence"]
    /\ UNCHANGED <<ttVars, mgVars, hashVars, perftVars, searchVars, uciVars>>

\* order_moves(board, hash_move, &state.killers[ply], ...)
KillersOrder ==
    /\ KillerRuns("negamax")
    /\ ~KillerEarlyReturn(ab_run)
    /\ ab_run.depth > 0
    /\ ab_run.index = <<>>
    /\ ab_run' = KillerIndexed(ab_run)
    /\ UNCHANGED <<ttVars, mgVars, hashVars, perftVars, searchVars, uciVars>>

\* the move loop reaches the move of the line: it is searched to depth - 1,
\* or to depth - 2 when it is reduced
KillersMove ==
    /\ KillerRuns("negamax")
    /\ ab_run.index # <<>>
    /\ ab_run.ply <= MaxWalkPly
    /\ legal(ab_run.board, WalkMove(ab_run.ply))
    /\ \E depth \in PathDepths(ab_run.depth) :
        ab_run' = KillerChild(ab_run, "negamax", WalkMove(ab_run.ply), depth)
    /\ UNCHANGED <<ttVars, mgVars, hashVars, perftVars, searchVars, uciVars>>

\* the moves quiescence searches: all of them in check, else the captures
QuiescenceMoves(board) ==
    {mv \in Range(LegalMoves(board)) :
        \/ board.checkers # EMPTY
        \/ get_dest(mv) \in board.colors[NotColor(board.side_to_move)]}

\* quiescence: if ply >= MAX_PLY { return evaluate(board) }; in check,
\* let killers = state.killers[ply]; then stand pat or a move
KillersQuiescence ==
    /\ KillerRuns("quiescence")
    /\ \/ /\ ab_run.ply >= MAX_PLY
          /\ ab_run' = KillerReturned(ab_run)
       \/ /\ ab_run.ply < MAX_PLY
          /\ ab_run.board.checkers # EMPTY
          /\ ab_run.index = <<>>
          /\ ab_run' = KillerIndexed(ab_run)
       \/ /\ ab_run.ply < MAX_PLY
          /\ ab_run.board.checkers # EMPTY => ab_run.index # <<>>
          /\ \/ ab_run' = KillerReturned(ab_run)
             \/ \E mv \in QuiescenceMoves(ab_run.board) :
                    ab_run' = KillerChild(ab_run, "quiescence", mv, 0)
    /\ UNCHANGED <<ttVars, mgVars, hashVars, perftVars, searchVars, uciVars>>

NextKillers ==
    KillersReturn \/ KillersLeaf \/ KillersOrder \/ KillersMove
        \/ KillersQuiescence

SpecKillers == InitKillers /\ [][NextKillers]_vars

KillerWalking == ab_run # <<>> /\ "index" \in DOMAIN ab_run

\* C36 (search.rs 264-293, 374-384): every index ply with which negamax
\* and quiescence read state.killers is below MAX_PLY, so that the access
\* is never out of bounds, for every depth 1..255 search is given.
C36_KillerIndexInBounds ==
    KillerWalking =>
        /\ ab_run.index # <<>> => ab_run.index[1] < MAX_PLY
        /\ ~ab_run.panic

\* quiescence alone: its index is below MAX_PLY
QuiescenceIndexInBounds ==
    (KillerWalking /\ ab_run.fn = "quiescence") =>
        /\ ab_run.index # <<>> => ab_run.index[1] < MAX_PLY
        /\ ~ab_run.panic

\* negamax with a depth of at most MAX_PLY at the root
IndexInBoundsUpToMaxPly ==
    (KillerWalking /\ ab_run.depth + ab_run.ply <= MAX_PLY) =>
        /\ ab_run.index # <<>> => ab_run.index[1] < MAX_PLY
        /\ ~ab_run.panic

\* no call of the line is made on a position that is in position_history
WalkNeverRepeats ==
    KillerWalking =>
        \A i, j \in DOMAIN ab_run.history :
            i # j => ab_run.history[i] # ab_run.history[j]

\* negamax at ply MAX_PLY with depth left, in a position that is neither
\* over nor repeated, has indexed killers[MAX_PLY]
KillersIndexedAtMaxPly ==
    /\ KillerWalking
    /\ ab_run.fn = "negamax"
    /\ ab_run.ply = MAX_PLY
    /\ ab_run.index = <<MAX_PLY>>
    /\ ab_run.panic

\* ------------------------------------------------------------------------
\* Aging of entries over searches (tt.rs 58-60, 109-118)
\* ------------------------------------------------------------------------

\* two keys of the same slot: bit 40 is above the mask
AgingKey == {0}
AgingOtherKey == {0, 40}
MaxAgingDepth == 2
\* the calls of new_search after the entry was written: more than the 256
\* values of the generation
MaxNewSearches == 257

\* a table at some generation with nothing written
InitAging ==
    /\ \E generation \in {0, 1, 255} :
        table = [tt_new(1) EXCEPT !.generation = generation]
    /\ tt_last = [op |-> "new", since |-> 0]
    /\ rt = <<>>
    /\ MGParked /\ HashParked /\ PerftParked /\ EngineParked

\* a search writes an entry
AgingWrite ==
    /\ tt_last.op = "new"
    /\ \E depth \in 0 .. MaxAgingDepth :
        table' = store(table, AgingKey, depth, 0, "Exact", NoMove, 0)
    /\ tt_last' = [op |-> "write", since |-> 0]
    /\ UNCHANGED <<rt, mgVars, hashVars, perftVars, engineVars>>

\* SearchState::reset at the start of a later search
AgingNewSearch ==
    /\ tt_last.op \in {"write", "new_search"}
    /\ tt_last.since < MaxNewSearches
    /\ table' = new_search(table)
    /\ tt_last' = [op |-> "new_search", since |-> tt_last.since + 1]
    /\ UNCHANGED <<rt, mgVars, hashVars, perftVars, engineVars>>

AgingStored(last, before, depth) ==
    [op |-> "store", since |-> last.since, depth |-> depth,
     entry |-> EntryAt(before, AgingOtherKey \cap before.mask),
     generation |-> before.generation]

\* a store of another position to the slot of the entry
AgingStore ==
    /\ tt_last.op \in {"write", "new_search"}
    /\ \E depth \in 0 .. MaxAgingDepth :
        /\ table' = store(table, AgingOtherKey, depth, 0, "Exact", NoMove, 0)
        /\ tt_last' = AgingStored(tt_last, table, depth)
    /\ UNCHANGED <<rt, mgVars, hashVars, perftVars, engineVars>>

NextAging == AgingWrite \/ AgingNewSearch \/ AgingStore

SpecAging == InitAging /\ [][NextAging]_vars

\* a store after at least one new_search since the entry was written
LaterStore ==
    /\ table # <<>>
    /\ "since" \in DOMAIN tt_last
    /\ tt_last.op = "store"
    /\ tt_last.since >= 1

Replaced == probe(table, AgingOtherKey) # <<>>

\* C38 as stated (tt.rs 58-60, 109-118): for any number of new_search
\* calls between the writing of an entry and a later store to its slot the
\* generation of the entry differs from the one of the table, and the store
\* replaces the entry whatever the depths.
C38_Original ==
    LaterStore =>
        /\ tt_last.entry.age # tt_last.generation
        /\ Replaced

\* C38, amended: the same for any number of new_search calls that is not a
\* multiple of 256, the generation being a byte that wraps.
C38_StaleEntryNeverBlocks ==
    (LaterStore /\ tt_last.since % 256 # 0) =>
        /\ tt_last.entry.age # tt_last.generation
        /\ Replaced

\* after 255 calls a store of depth 0 replaced an entry of greater depth
C38_Witness ==
    /\ LaterStore
    /\ tt_last.since = 255
    /\ tt_last.depth = 0
    /\ tt_last.entry.depth = MaxAgingDepth
    /\ Replaced

\* after 256 calls the entry has the generation of the table again and
\* keeps its slot against a store of smaller depth
BlockedAfterWrap ==
    /\ LaterStore
    /\ tt_last.since = 256
    /\ tt_last.entry.age = tt_last.generation
    /\ ~Replaced

\* the slot of the key holds an entry that a store of that key wrote since
\* the table was made or cleared: entries has the slots that were written
StoredFor(tt, hash) ==
    /\ (hash \cap tt.mask) \in DOMAIN tt.entries
    /\ tt.entries[hash \cap tt.mask].key = hash

\* C39 (tt.rs 63-72, 22-33): probe(h) returns an entry only if a store with
\* key h wrote the slot since the table was created or cleared and no later
\* store replaced it; for every key h, a probe of a table in which no store
\* for h has happened returns nothing.
C39_ProbeOnlyStored ==
    table # <<>> => \A hash \in TTKeys : probe(table, hash) # <<>> => StoredFor(table, hash)

\* the same for every key but 0
ProbeOnlyStoredNonZero ==
    table # <<>> =>
        \A hash \in TTKeys \ {{}} : probe(table, hash) # <<>> => StoredFor(table, hash)

\* a probe of key 0 in a table nothing was stored in returned the default
\* entry
DefaultEntryReturned ==
    /\ table # <<>>
    /\ table.entries = <<>>
    /\ tt_last.op = "probe"
    /\ tt_last.hash = {}
    /\ tt_last.found = <<TTEntryDefault>>

\* ------------------------------------------------------------------------
\* The stop flag of a search (uci.rs 62-103, search.rs 43-51)
\* ------------------------------------------------------------------------

UciRuns == uci # <<>> /\ uci' # <<>>

\* the step spawns a search
GoStarts == UciRuns /\ uci'.goes = uci.goes + 1

\* the step is the main thread reading stop or quit
StopRead ==
    /\ UciRuns
    /\ uci'.lines = uci.lines + 1
    /\ uci'.cmd \in {"stop", "quit"}
    /\ uci'.main = "join"

\* the step is a turn of the search with flag i whose clock has run out,
\* or which finds its flag set
OwnTimeCheck(i) ==
    /\ UciRuns
    /\ uci.search_thread # <<>>
    /\ uci.search_thread.stop = i
    /\ uci.search_thread.pc = "search"
    /\ uci'.search_thread.pc = "info"
    /\ uci.search_thread.timed

\* the flag i is false before the step and true after it
FlagSet(i) == UciRuns /\ ~uci.flags[i] /\ uci'.flags[i]

\* C40 (uci.rs 62-103, search.rs 43-51): every go starts its search with a
\* flag of its own that is false; a flag is set only by a stop or quit read
\* after the go that made it and before the next go, or by the time check of
\* its own search; so a stop read while no search runs, or after an earlier
\* search, sets no flag of a later search.
C40_StopFlagPerSearch ==
    [][/\ GoStarts =>
            /\ uci'.search_thread.stop \notin DOMAIN uci.flags
            /\ uci'.stop_flag = uci'.search_thread.stop
            /\ ~uci'.flags[uci'.search_thread.stop]
       /\ UciRuns =>
            \A i \in DOMAIN uci.flags :
                FlagSet(i) =>
                    \/ StopRead /\ i = uci.stop_flag
                            /\ (uci.search_thread # <<>>
                                    => uci.search_thread.stop = i)
                    \/ OwnTimeCheck(i)]_vars

\* stop, go, go: the stop, read while no search ran, set the flag run()
\* made, and the second search has run to its end with its own flag false
C40_Witness ==
    /\ uci # <<>>
    /\ uci.goes = 2
    /\ uci.search_thread # <<>>
    /\ uci.search_thread.go = 2
    /\ uci.search_thread.pc = "exit"
    /\ ~uci.flags[uci.search_thread.stop]
    /\ uci.flags[1]

=========================================================================
